---------------------------- MODULE Spec2Model ----------------------------
(***************************************************************************)
(* A model of the BJData / UBJSON encoder of pybj (bjdata/encoder.py).     *)
(*                                                                         *)
(* Bytes are the integers 0..255 and a byte string is a sequence of them.  *)
(* Python integers are unbounded, so an integer is modelled by its sign    *)
(* and its magnitude in base 256 (least significant digit first): the      *)
(* comparisons against 2**8 .. 2**64 and the struct packers are computed   *)
(* on that representation.  A text string is a sequence of code points and *)
(* str.encode("utf-8") is computed code point by code point.               *)
(***************************************************************************)
EXTENDS Integers, Sequences, FiniteSets, TLC

VARIABLES
    heap,       \* the containers of the process: identity -> list or dict
    numpy,      \* whether "import numpy" succeeds in this process
    cfg,        \* per call: the keyword arguments of dump()
    root,       \* per call: the object handed to dump()
    status,     \* per call: "idle", "running", "done" or the exception raised
    out,        \* per call: the bytes written to fp so far
    seen,       \* per call: the keys of seen_containers
    stack       \* per call: the active encode_array/encode_object/encode_soa frames

vars == <<heap, numpy, cfg, root, status, out, seen, stack>>

(***************************************************************************)
(* Bounds of the model.                                                    *)
(***************************************************************************)
MaxSmallInt == 300
MaxStrLen == 2
MaxKids == 2
MaxRows == 4

(***************************************************************************)
(* markers.py                                                              *)
(***************************************************************************)
TYPE_NULL == 90
TYPE_BOOL_TRUE == 84
TYPE_BOOL_FALSE == 70
TYPE_INT8 == 105
TYPE_UINT8 == 85
TYPE_INT16 == 73
TYPE_UINT16 == 117
TYPE_INT32 == 108
TYPE_UINT32 == 109
TYPE_INT64 == 76
TYPE_UINT64 == 77
TYPE_FLOAT64 == 68
TYPE_HIGH_PREC == 72
TYPE_CHAR == 67
TYPE_STRING == 83
OBJECT_START == 123
OBJECT_END == 125
ARRAY_START == 91
ARRAY_END == 93
CONTAINER_TYPE == 36
CONTAINER_COUNT == 35

(***************************************************************************)
(* Sequence helpers.                                                       *)
(***************************************************************************)
\* The recursions over sequences split in halves, so that a long byte string
\* or column is folded at logarithmic depth.
RECURSIVE FlattenRange(_, _, _)
FlattenRange(ss, lo, hi) ==
    IF lo > hi THEN <<>>
    ELSE IF lo = hi THEN ss[lo]
    ELSE LET mid == (lo + hi) \div 2
         IN  FlattenRange(ss, lo, mid) \o FlattenRange(ss, mid + 1, hi)

Flatten(ss) == FlattenRange(ss, 1, Len(ss))

Reverse(s) == [i \in 1..Len(s) |-> s[Len(s) + 1 - i]]

Rep(x, n) == [i \in 1..n |-> x]

RECURSIVE SumRange(_, _, _)
SumRange(s, lo, hi) ==
    IF lo > hi THEN 0
    ELSE IF lo = hi THEN s[lo]
    ELSE LET mid == (lo + hi) \div 2
         IN  SumRange(s, lo, mid) + SumRange(s, mid + 1, hi)

SumSeq(s) == SumRange(s, 1, Len(s))

\* max() of a non-empty sequence of numbers
MaxSeq(s) == CHOOSE m \in {s[i] : i \in 1..Len(s)} : \A i \in 1..Len(s) : s[i] <= m

\* The members of a set of indexes, ascending.
Ascending(P) ==
    [k \in 1..Cardinality(P) |->
        CHOOSE i \in P : Cardinality({j \in P : j <= i}) = k]

(***************************************************************************)
(* Python int: [neg, mag], mag the base-256 digits of |n|, least           *)
(* significant first, without leading zero digits (zero is <<>>).          *)
(***************************************************************************)
RECURSIVE NatDigits(_)
NatDigits(n) ==
    IF n = 0 THEN <<>> ELSE <<n % 256>> \o NatDigits(n \div 256)

RECURSIVE Strip(_)
Strip(d) ==
    IF d = <<>> THEN <<>>
    ELSE IF d[Len(d)] = 0 THEN Strip(SubSeq(d, 1, Len(d) - 1)) ELSE d

PyInt(n) ==
    [neg |-> n < 0, mag |-> NatDigits(IF n < 0 THEN 0 - n ELSE n)]

RECURSIVE Pow2Small(_)
Pow2Small(k) ==
    IF k = 0 THEN 1 ELSE 2 * Pow2Small(k - 1)

\* 2**k
Pow2(k) ==
    [neg |-> FALSE, mag |-> Rep(0, k \div 8) \o <<Pow2Small(k % 8)>>]

RECURSIVE MagSucc(_)
MagSucc(d) ==
    IF d = <<>> THEN <<1>>
    ELSE IF Head(d) < 255 THEN <<Head(d) + 1>> \o Tail(d)
    ELSE <<0>> \o MagSucc(Tail(d))

RECURSIVE MagPredRaw(_)
MagPredRaw(d) ==
    IF Head(d) > 0 THEN <<Head(d) - 1>> \o Tail(d)
    ELSE <<255>> \o MagPredRaw(Tail(d))

\* |n| - 1 for |n| >= 1
MagPred(d) == Strip(MagPredRaw(d))

\* n + 1 and n - 1
PySucc(n) ==
    IF n.neg THEN LET m == MagPred(n.mag) IN [neg |-> m # <<>>, mag |-> m]
    ELSE [neg |-> FALSE, mag |-> MagSucc(n.mag)]

PyPred(n) ==
    IF n.neg \/ n.mag = <<>> THEN [neg |-> TRUE, mag |-> MagSucc(n.mag)]
    ELSE [neg |-> FALSE, mag |-> MagPred(n.mag)]

\* -n
PyNeg(n) == [neg |-> (~n.neg) /\ n.mag # <<>>, mag |-> n.mag]

RECURSIVE MagLessSameLen(_, _)
MagLessSameLen(a, b) ==
    IF a = <<>> THEN FALSE
    ELSE IF a[Len(a)] # b[Len(b)] THEN a[Len(a)] < b[Len(b)]
    ELSE MagLessSameLen(SubSeq(a, 1, Len(a) - 1), SubSeq(b, 1, Len(b) - 1))

MagLess(a, b) ==
    IF Len(a) # Len(b) THEN Len(a) < Len(b) ELSE MagLessSameLen(a, b)

\* a < b on Python ints
PyLess(a, b) ==
    IF a.neg /\ ~b.neg THEN TRUE
    ELSE IF ~a.neg /\ b.neg THEN FALSE
    ELSE IF a.neg THEN MagLess(b.mag, a.mag)
    ELSE MagLess(a.mag, b.mag)

\* abs(n)
PyAbs(n) == [neg |-> FALSE, mag |-> n.mag]

\* One step of long division of a magnitude by 10, most significant digit first:
\* [q |-> quotient digits (least significant first), r |-> remainder].
RECURSIVE MagDivMod10(_)
MagDivMod10(d) ==
    IF d = <<>> THEN [q |-> <<>>, r |-> 0]
    ELSE LET hi == MagDivMod10(Tail(d))
             cur == hi.r * 256 + Head(d)
         IN  [q |-> <<cur \div 10>> \o hi.q, r |-> cur % 10]

\* The decimal digits of a magnitude as ASCII, most significant first.
RECURSIVE MagDecimal(_)
MagDecimal(d) ==
    IF d = <<>> THEN <<>>
    ELSE LET dm == MagDivMod10(d)
         IN  MagDecimal(Strip(dm.q)) \o <<48 + dm.r>>

\* str(n).encode("utf-8") for an int n (also str(Decimal(n)))
PyIntStr(n) ==
    IF n.mag = <<>> THEN <<48>>
    ELSE (IF n.neg THEN <<45>> ELSE <<>>) \o MagDecimal(n.mag)

(***************************************************************************)
(* struct packers.  le = 1 is "<" (little-endian), le = 0 is ">".          *)
(***************************************************************************)
ByteOrder(bytes, le) == IF le = 1 THEN bytes ELSE Reverse(bytes)

\* The w low-order bytes of a non-negative magnitude, least significant first.
PadTo(d, w) == [i \in 1..w |-> IF i <= Len(d) THEN d[i] ELSE 0]

\* Two's complement of -|d| in w bytes: (256**w - |d|), for 1 <= |d| <= 256**w.
TwosComplement(d, w) ==
    PadTo(MagSucc([i \in 1..w |-> 255 - PadTo(d, w)[i]]), w)

\* Struct("<B"/"<H"/"<I"/"<Q").pack accepts 0 <= n < 256**w
PackUnsignedOk(n, w) == (~n.neg) /\ Len(n.mag) <= w

\* Struct("<b"/"<h"/"<i"/"<q").pack accepts -2**(8w-1) <= n < 2**(8w-1)
PackSignedOk(n, w) ==
    IF n.neg THEN ~PyLess(n, PyNeg(Pow2(8 * w - 1)))
    ELSE PyLess(n, Pow2(8 * w - 1))

PackUnsigned(n, w, le) == ByteOrder(PadTo(n.mag, w), le)

PackSigned(n, w, le) ==
    ByteOrder(IF n.neg THEN TwosComplement(n.mag, w) ELSE PadTo(n.mag, w), le)

(***************************************************************************)
(* str.encode("utf-8")                                                     *)
(***************************************************************************)
Utf8Char(cp) ==
    IF cp < 128 THEN <<cp>>
    ELSE IF cp < 2048 THEN <<192 + (cp \div 64), 128 + (cp % 64)>>
    ELSE IF cp < 65536 THEN
        <<224 + (cp \div 4096), 128 + ((cp \div 64) % 64), 128 + (cp % 64)>>
    ELSE <<240 + (cp \div 262144), 128 + ((cp \div 4096) % 64),
           128 + ((cp \div 64) % 64), 128 + (cp % 64)>>

Utf8(s) == Flatten([i \in 1..Len(s) |-> Utf8Char(s[i])])

(***************************************************************************)
(* Scalar encoders.  Each returns the bytes it hands to fp_write.          *)
(***************************************************************************)
SMALL_UINTS_ENCODED(le, i) == <<TYPE_UINT8>> \o PackUnsigned(PyInt(i), 1, le)

SMALL_INTS_ENCODED(le, i) == <<TYPE_INT8>> \o PackSigned(PyInt(i), 1, le)

\* The value of a one-digit magnitude, for the table lookups.
SmallValue(n) ==
    IF n.mag = <<>> THEN 0 ELSE IF n.neg THEN 0 - n.mag[1] ELSE n.mag[1]

RECURSIVE encode_int(_, _)
\* encode_decimal(fp_write, Decimal(item), le) for an int item: always finite.
encode_decimal(item, le) ==
    LET encoded_val == PyIntStr(item)
    IN  <<TYPE_HIGH_PREC>> \o encode_int(PyInt(Len(encoded_val)), le) \o encoded_val

\* encode_int with the 64-bit unsigned branch bounded as if it were signed.
encode_int_u64_as_signed(item, le) ==
    IF ~PyLess(item, PyInt(0)) THEN
        IF PyLess(item, Pow2(8)) THEN SMALL_UINTS_ENCODED(le, SmallValue(item))
        ELSE IF PyLess(item, Pow2(16)) THEN
            <<TYPE_UINT16>> \o PackUnsigned(item, 2, le)
        ELSE IF PyLess(item, Pow2(32)) THEN
            <<TYPE_UINT32>> \o PackUnsigned(item, 4, le)
        ELSE IF PyLess(item, Pow2(63)) THEN
            <<TYPE_UINT64>> \o PackUnsigned(item, 8, le)
        ELSE encode_decimal(item, le)
    ELSE IF ~PyLess(item, PyNeg(Pow2(7))) THEN
        SMALL_INTS_ENCODED(le, SmallValue(item))
    ELSE IF ~PyLess(item, PyNeg(Pow2(15))) THEN
        <<TYPE_INT16>> \o PackSigned(item, 2, le)
    ELSE IF ~PyLess(item, PyNeg(Pow2(31))) THEN
        <<TYPE_INT32>> \o PackSigned(item, 4, le)
    ELSE IF ~PyLess(item, PyNeg(Pow2(63))) THEN
        <<TYPE_INT64>> \o PackSigned(item, 8, le)
    ELSE encode_decimal(item, le)

\* encode_int looking 0..127 up in the int8 table before the uint8 table.
encode_int_int8_first(item, le) ==
    IF ~PyLess(item, PyInt(0)) THEN
        IF PyLess(item, Pow2(7)) THEN SMALL_INTS_ENCODED(le, SmallValue(item))
        ELSE IF PyLess(item, Pow2(8)) THEN SMALL_UINTS_ENCODED(le, SmallValue(item))
        ELSE IF PyLess(item, Pow2(16)) THEN
            <<TYPE_UINT16>> \o PackUnsigned(item, 2, le)
        ELSE IF PyLess(item, Pow2(32)) THEN
            <<TYPE_UINT32>> \o PackUnsigned(item, 4, le)
        ELSE IF PyLess(item, Pow2(64)) THEN
            <<TYPE_UINT64>> \o PackUnsigned(item, 8, le)
        ELSE encode_decimal(item, le)
    ELSE IF ~PyLess(item, PyNeg(Pow2(7))) THEN
        SMALL_INTS_ENCODED(le, SmallValue(item))
    ELSE IF ~PyLess(item, PyNeg(Pow2(15))) THEN
        <<TYPE_INT16>> \o PackSigned(item, 2, le)
    ELSE IF ~PyLess(item, PyNeg(Pow2(31))) THEN
        <<TYPE_INT32>> \o PackSigned(item, 4, le)
    ELSE IF ~PyLess(item, PyNeg(Pow2(63))) THEN
        <<TYPE_INT64>> \o PackSigned(item, 8, le)
    ELSE encode_decimal(item, le)

encode_int(item, le) ==
    IF ~PyLess(item, PyInt(0)) THEN
        IF PyLess(item, Pow2(8)) THEN SMALL_UINTS_ENCODED(le, SmallValue(item))
        ELSE IF PyLess(item, Pow2(16)) THEN
            <<TYPE_UINT16>> \o PackUnsigned(item, 2, le)
        ELSE IF PyLess(item, Pow2(32)) THEN
            <<TYPE_UINT32>> \o PackUnsigned(item, 4, le)
        ELSE IF PyLess(item, Pow2(64)) THEN
            <<TYPE_UINT64>> \o PackUnsigned(item, 8, le)
        ELSE encode_decimal(item, le)
    ELSE IF ~PyLess(item, PyNeg(Pow2(7))) THEN
        SMALL_INTS_ENCODED(le, SmallValue(item))
    ELSE IF ~PyLess(item, PyNeg(Pow2(15))) THEN
        <<TYPE_INT16>> \o PackSigned(item, 2, le)
    ELSE IF ~PyLess(item, PyNeg(Pow2(31))) THEN
        <<TYPE_INT32>> \o PackSigned(item, 4, le)
    ELSE IF ~PyLess(item, PyNeg(Pow2(63))) THEN
        <<TYPE_INT64>> \o PackSigned(item, 8, le)
    ELSE encode_decimal(item, le)

\* encode_string taking the length in code points, not in encoded bytes.
encode_string_len_of_text(item, le) ==
    LET encoded_val == Utf8(item)
        length == Len(item)
    IN  IF length = 1 THEN <<TYPE_CHAR>> \o encoded_val
        ELSE <<TYPE_STRING>>
             \o (IF length < 256 THEN SMALL_UINTS_ENCODED(le, length)
                 ELSE encode_int(PyInt(length), le))
             \o encoded_val

encode_string(item, le) ==
    LET encoded_val == Utf8(item)
        length == Len(encoded_val)
    IN  IF length = 1 THEN <<TYPE_CHAR>> \o encoded_val
        ELSE <<TYPE_STRING>>
             \o (IF length < 256 THEN SMALL_UINTS_ENCODED(le, length)
                 ELSE encode_int(PyInt(length), le))
             \o encoded_val

(***************************************************************************)
(* Python values.  A scalar is held inline; a list or dict is a reference  *)
(* (its identity, id(item)) into the heap.                                 *)
(***************************************************************************)
Value(t) == [t |-> t, neg |-> FALSE, mag |-> <<>>, s |-> <<>>, id |-> 0]

NoneV == Value("None")
TrueV == Value("True")
FalseV == Value("False")
IntV(n) == [Value("int") EXCEPT !.neg = n.neg, !.mag = n.mag]
StrV(s) == [Value("str") EXCEPT !.s = s]
Ref(i) == [Value("ref") EXCEPT !.id = i]

IntOf(v) == [neg |-> v.neg, mag |-> v.mag]

\* A heap object: a list (items), a dict (keys[i] -> items[i], in insertion
\* order), or a one-dimensional numpy structured array: keys are dtype.names,
\* dtypes[k] is the dtype of field k as [order, code] (dtype.str is order \o code,
\* order "<", ">" or "|"), and items are the elements' fields, row after row.
ListObj(items) == [kind |-> "list", keys |-> <<>>, items |-> items, dtypes |-> <<>>]
DictObj(keys, items) == [kind |-> "dict", keys |-> keys, items |-> items, dtypes |-> <<>>]
RecArray(names, dtypes, items) ==
    [kind |-> "ndarray", keys |-> names, items |-> items, dtypes |-> dtypes]

\* An instance of a class the encoder has no branch for.
Instance == [kind |-> "object", keys |-> <<>>, items |-> <<>>, dtypes |-> <<>>]

IsList(v) == v.t = "ref" /\ heap[v.id].kind = "list"
IsDict(v) == v.t = "ref" /\ heap[v.id].kind = "dict"
IsRecArray(v) == v.t = "ref" /\ heap[v.id].kind = "ndarray"

\* bool(v)
Truthy(v) ==
    CASE v.t = "None" -> FALSE
      [] v.t = "True" -> TRUE
      [] v.t = "False" -> FALSE
      [] v.t = "int" -> v.mag # <<>>
      [] v.t = "str" -> v.s # <<>>
      [] v.t = "ref" -> heap[v.id].items # <<>>

\* str(v), as code points, for what a column can hold: a scalar, or a list of
\* numbers, booleans and None ("[1, 2]")
RECURSIVE PyStr(_)
PyStr(v) ==
    CASE v.t = "str" -> v.s
      [] v.t = "int" -> PyIntStr(IntOf(v))
      [] v.t = "True" -> <<84, 114, 117, 101>>
      [] v.t = "False" -> <<70, 97, 108, 115, 101>>
      [] v.t = "None" -> <<78, 111, 110, 101>>
      [] v.t = "ref" ->
            LET items == heap[v.id].items
            IN  <<91>>
                \o Flatten([k \in 1..Len(items) |->
                               (IF k = 1 THEN <<>> ELSE <<44, 32>>) \o PyStr(items[k])])
                \o <<93>>

\* a < b on str: by code points
RECURSIVE StrLess(_, _)
StrLess(a, b) ==
    IF b = <<>> THEN FALSE
    ELSE IF a = <<>> THEN TRUE
    ELSE IF Head(a) # Head(b) THEN Head(a) < Head(b)
    ELSE StrLess(Tail(a), Tail(b))

\* a < b on two keys, both str or both int
KeyLess(a, b) == IF a.t = "str" THEN StrLess(a.s, b.s) ELSE PyLess(IntOf(a), IntOf(b))

\* sorted() raises TypeError on keys it cannot order (a < b is defined on two str
\* and on two int): whatever comparisons it makes, it cannot place two keys next
\* to each other without comparing them.
Unsortable(keys) ==
    \E i, j \in 1..Len(keys) :
        i # j /\ ~(keys[i].t = keys[j].t /\ keys[i].t \in {"str", "int"})

\* sorted(item.items()): the entry indexes of a dict in ascending key order
\* (keys of a dict are distinct, so the values are never compared).
RECURSIVE InsertSorted(_, _, _)
InsertSorted(keys, order, i) ==
    IF order = <<>> THEN <<i>>
    ELSE IF KeyLess(keys[i], keys[Head(order)]) THEN <<i>> \o order
    ELSE <<Head(order)>> \o InsertSorted(keys, Tail(order), i)

RECURSIVE SortedOrder(_, _)
SortedOrder(keys, n) ==
    IF n = 0 THEN <<>> ELSE InsertSorted(keys, SortedOrder(keys, n - 1), n)

\* row.get(name)
RECURSIVE DictGet(_, _, _)
DictGet(obj, name, i) ==
    IF i > Len(obj.keys) THEN NoneV
    ELSE IF obj.keys[i] = name THEN obj.items[i]
    ELSE DictGet(obj, name, i + 1)

\* list(dict.fromkeys(values)): first occurrences, in order
Unique(values) ==
    LET first == Ascending({i \in 1..Len(values) :
                               \A j \in 1..(i - 1) : values[j] # values[i]})
    IN  [k \in 1..Len(first) |-> values[first[k]]]

\* list.index(val), zero-based (val is in the list)
IndexOf(s, val) ==
    (CHOOSE i \in 1..Len(s) : s[i] = val /\ \A j \in 1..(i - 1) : s[j] # val) - 1

(***************************************************************************)
(* SOA: column analysis.                                                   *)
(***************************************************************************)
Utf8Lens(values) == [i \in 1..Len(values) |-> Len(Utf8(values[i]))]

\* values: the column's strings.  num_unique <= count * 0.3 is decided in
\* floating point; for integers that is exactly 10 * num_unique <= 3 * count.
\* analyze_string_field letting dict win a tie with fixed.
analyze_string_field_tie_to_dict(values) ==
    IF values = <<>> THEN [enc |-> "fixed", param |-> 1, dict |-> <<>>]
    ELSE
    LET unique_values == Unique(values)
        max_len == MaxSeq(Utf8Lens(values))
        total_len == SumSeq(Utf8Lens(values))
        count == Len(values)
        num_unique == Len(unique_values)
        fixed_cost == max_len * count
        idx_bytes == IF num_unique <= 255 THEN 1
                     ELSE IF num_unique <= 65535 THEN 2 ELSE 4
        dict_overhead == SumSeq([i \in 1..num_unique |->
                                    Len(Utf8(unique_values[i])) + 2])
        dict_cost == idx_bytes * count + dict_overhead
        off_bytes == IF total_len <= 255 THEN 1
                     ELSE IF total_len <= 65535 THEN 2 ELSE 4
        offset_cost == idx_bytes * count + (count + 1) * off_bytes + total_len
    IN  IF 10 * num_unique <= 3 * count /\ dict_cost <= fixed_cost
           /\ dict_cost < offset_cost
        THEN [enc |-> "dict", param |-> idx_bytes, dict |-> unique_values]
        ELSE IF max_len > 32 /\ offset_cost < fixed_cost
        THEN [enc |-> "offset", param |-> off_bytes, dict |-> <<>>]
        ELSE [enc |-> "fixed", param |-> max_len, dict |-> <<>>]

\* analyze_string_field choosing dict on the share of distinct values alone.
analyze_string_field_dict_by_share(values) ==
    IF values = <<>> THEN [enc |-> "fixed", param |-> 1, dict |-> <<>>]
    ELSE
    LET unique_values == Unique(values)
        max_len == MaxSeq(Utf8Lens(values))
        total_len == SumSeq(Utf8Lens(values))
        count == Len(values)
        num_unique == Len(unique_values)
        fixed_cost == max_len * count
        idx_bytes == IF num_unique <= 255 THEN 1
                     ELSE IF num_unique <= 65535 THEN 2 ELSE 4
        off_bytes == IF total_len <= 255 THEN 1
                     ELSE IF total_len <= 65535 THEN 2 ELSE 4
        offset_cost == idx_bytes * count + (count + 1) * off_bytes + total_len
    IN  IF 10 * num_unique <= 3 * count
        THEN [enc |-> "dict", param |-> idx_bytes, dict |-> unique_values]
        ELSE IF max_len > 32 /\ offset_cost < fixed_cost
        THEN [enc |-> "offset", param |-> off_bytes, dict |-> <<>>]
        ELSE [enc |-> "fixed", param |-> max_len, dict |-> <<>>]

analyze_string_field(values) ==
    IF values = <<>> THEN [enc |-> "fixed", param |-> 1, dict |-> <<>>]
    ELSE
    LET unique_values == Unique(values)
        max_len == MaxSeq(Utf8Lens(values))
        total_len == SumSeq(Utf8Lens(values))
        count == Len(values)
        num_unique == Len(unique_values)
        fixed_cost == max_len * count
        idx_bytes == IF num_unique <= 255 THEN 1
                     ELSE IF num_unique <= 65535 THEN 2 ELSE 4
        dict_overhead == SumSeq([i \in 1..num_unique |->
                                    Len(Utf8(unique_values[i])) + 2])
        dict_cost == idx_bytes * count + dict_overhead
        off_bytes == IF total_len <= 255 THEN 1
                     ELSE IF total_len <= 65535 THEN 2 ELSE 4
        offset_cost == idx_bytes * count + (count + 1) * off_bytes + total_len
    IN  IF 10 * num_unique <= 3 * count /\ dict_cost < fixed_cost
           /\ dict_cost < offset_cost
        THEN [enc |-> "dict", param |-> idx_bytes, dict |-> unique_values]
        ELSE IF max_len > 32 /\ offset_cost < fixed_cost
        THEN [enc |-> "offset", param |-> off_bytes, dict |-> <<>>]
        ELSE [enc |-> "fixed", param |-> max_len, dict |-> <<>>]

\* __NUMPY_DTYPE_TO_MARKER for the integer dtypes; 0 where the code gives None
get_numpy_dtype_marker(code) ==
    CASE code = "i1" -> TYPE_INT8
      [] code = "i2" -> TYPE_INT16
      [] code = "i4" -> TYPE_INT32
      [] code = "i8" -> TYPE_INT64
      [] code = "u1" -> TYPE_UINT8
      [] code = "u2" -> TYPE_UINT16
      [] code = "u4" -> TYPE_UINT32
      [] code = "u8" -> TYPE_UINT64
      [] OTHER -> 0

\* numpy is importable, and item is a structured array whose fields all have a
\* marker, or a non-empty list of dicts with one key set
can_encode_as_soa(item) ==
    /\ numpy
    /\ \/ /\ IsRecArray(item)
          /\ \A k \in 1..Len(heap[item.id].dtypes) :
                 get_numpy_dtype_marker(heap[item.id].dtypes[k].code) # 0
       \/ /\ IsList(item)
          /\ Len(heap[item.id].items) > 0
          /\ \A i \in 1..Len(heap[item.id].items) : IsDict(heap[item.id].items[i])
          /\ LET rows == heap[item.id].items
                 keys == {heap[rows[1].id].keys[k] : k \in 1..Len(heap[rows[1].id].keys)}
             IN  \A i \in 1..Len(rows) :
                     {heap[rows[i].id].keys[k] : k \in 1..Len(heap[rows[i].id].keys)} = keys

\* A schema entry.  Entries of other kinds leave the string parameters unset;
\* dtype is set where the values are a column of a numpy array.
Field(name, type, values) ==
    [name |-> name, type |-> type, marker |-> 0, encoding |-> "", length |-> 0,
     dict |-> <<>>, index_marker |-> 0, values |-> values,
     dtype |-> [order |-> "", code |-> ""]]

\* next((v for v in values if v is not None), None)
Sample(values) ==
    LET present == {i \in 1..Len(values) : values[i].t # "None"}
    IN  IF present = {} THEN NoneV
        ELSE values[CHOOSE i \in present : \A j \in present : i <= j]

\* abs(v) is defined on int and bool
HasAbs(v) == v.t \in {"int", "True", "False"}

NumOf(v) ==
    CASE v.t = "int" -> IntOf(v)
      [] v.t = "True" -> PyInt(1)
      [] v.t = "False" -> PyInt(0)
      [] v.t = "None" -> PyInt(0)

\* max(abs(v) for v in values if v is not None)
MaxAbs(values) ==
    LET abs == {PyAbs(NumOf(values[i])) : i \in {j \in 1..Len(values) :
                                                   values[j].t # "None"}}
    IN  CHOOSE m \in abs : \A a \in abs : ~PyLess(m, a)

\* if sample is int: choose smallest integer type that fits
IntColumnMarker(values) ==
    LET max_val == MaxAbs(values)
    IN  IF PyLess(max_val, PyInt(128)) THEN TYPE_INT8
        ELSE IF PyLess(max_val, PyInt(256)) THEN TYPE_UINT8
        ELSE IF PyLess(max_val, PyInt(32768)) THEN TYPE_INT16
        ELSE IF PyLess(max_val, PyInt(65536)) THEN TYPE_UINT16
        ELSE IF PyLess(max_val, Pow2(31)) THEN TYPE_INT32
        ELSE IF PyLess(max_val, Pow2(32)) THEN TYPE_UINT32
        ELSE TYPE_INT64

\* The index marker of one byte whatever the width the analysis returned.
IndexMarker_always_uint8(enc_param) == TYPE_UINT8

\* idx_marker of a string field, from the width analyze_string_field returned

IndexMarker(enc_param) ==
    IF enc_param = 1 THEN TYPE_UINT8
    ELSE IF enc_param = 2 THEN TYPE_UINT16 ELSE TYPE_UINT32

\* The schema entries one field name of a list of dicts contributes: one entry,
\* or none when the sample is of no handled type.
SchemaOfColumn(name, values) ==
    LET sample == Sample(values)
    IN  IF sample.t = "None" THEN <<Field(name, "null", values)>>
        ELSE IF sample.t \in {"True", "False"} THEN <<Field(name, "bool", values)>>
        ELSE IF sample.t = "str" THEN
            LET str_values == [i \in 1..Len(values) |->
                                  IF Truthy(values[i]) THEN PyStr(values[i]) ELSE <<>>]
                a == analyze_string_field(str_values)
            IN  <<[Field(name, "string", [i \in 1..Len(values) |-> StrV(str_values[i])])
                   EXCEPT
                      !.encoding = a.enc, !.length = a.param, !.dict = a.dict,
                      !.index_marker = IndexMarker(a.param)]>>
        ELSE IF sample.t = "int" THEN
            <<[Field(name, "numeric", values) EXCEPT
                  !.marker = IntColumnMarker(values)]>>
        ELSE <<>>

\* abs() raises TypeError on a value of an int column that is no number
ColumnTypeError(values) ==
    /\ Sample(values).t = "int"
    /\ \E i \in 1..Len(values) : values[i].t # "None" /\ ~HasAbs(values[i])

\* The columns of a list of dicts, in the key order of its first row.
Columns(item) ==
    LET rows == heap[item.id].items
        field_names == heap[rows[1].id].keys
    IN  [k \in 1..Len(field_names) |->
            [name |-> field_names[k],
             values |-> [i \in 1..Len(rows) |->
                            DictGet(heap[rows[i].id], field_names[k], 1)]]]

\* The schema of a structured array: one numeric entry per field, its marker
\* from the dtype without its byte-order prefix, its values flat_item[name].
ArraySchema(item) ==
    LET arr == heap[item.id]
        nf == Len(arr.keys)
    IN  [k \in 1..nf |->
            [Field(arr.keys[k], "numeric",
                   [i \in 1..(Len(arr.items) \div nf) |-> arr.items[(i - 1) * nf + k]])
             EXCEPT !.marker = get_numpy_dtype_marker(arr.dtypes[k].code),
                    !.dtype = arr.dtypes[k]]]

BuildSchema(item) ==
    IF IsRecArray(item) THEN ArraySchema(item)
    ELSE LET cols == Columns(item)
         IN  Flatten([k \in 1..Len(cols) |->
                         SchemaOfColumn(cols[k].name, cols[k].values)])

SchemaTypeError(item) ==
    /\ IsList(item)
    /\ \E k \in 1..Len(Columns(item)) : ColumnTypeError(Columns(item)[k].values)

(***************************************************************************)
(* SOA: header, payload and trailer bytes.                                 *)
(***************************************************************************)
DictEntries(dictionary, le) ==
    Flatten([k \in 1..Len(dictionary) |->
                encode_int(PyInt(Len(Utf8(dictionary[k]))), le) \o Utf8(dictionary[k])])

encode_soa_schema_field(field_info, le) ==
    LET encoded_name == Utf8(field_info.name.s)
    IN  encode_int(PyInt(Len(encoded_name)), le) \o encoded_name \o
        (CASE field_info.type = "numeric" -> <<field_info.marker>>
           [] field_info.type = "bool" -> <<TYPE_BOOL_TRUE>>
           [] field_info.type = "null" -> <<TYPE_NULL>>
           [] field_info.type = "string" /\ field_info.encoding = "fixed" ->
                <<TYPE_STRING>> \o encode_int(PyInt(field_info.length), le)
           [] field_info.type = "string" /\ field_info.encoding = "dict" ->
                <<ARRAY_START, CONTAINER_TYPE, TYPE_STRING, CONTAINER_COUNT>>
                \o encode_int(PyInt(Len(field_info.dict)), le)
                \o DictEntries(field_info.dict, le)
           [] field_info.type = "string" /\ field_info.encoding = "offset" ->
                <<ARRAY_START, CONTAINER_TYPE, field_info.index_marker, ARRAY_END>>)

\* The result of a write that may raise struct.error.
Wrote(bytes) == [ok |-> TRUE, bytes |-> bytes]
StructError == [ok |-> FALSE, bytes |-> <<>>]

PackU(n, w, le) ==
    IF PackUnsignedOk(n, w) THEN Wrote(PackUnsigned(n, w, le)) ELSE StructError

PackS(n, w, le) ==
    IF PackSignedOk(n, w) THEN Wrote(PackSigned(n, w, le)) ELSE StructError

\* The width written for an index marker: "B", else "H", else "I".
IndexWidth(idx_marker) ==
    IF idx_marker = TYPE_UINT8 THEN 1 ELSE IF idx_marker = TYPE_UINT16 THEN 2 ELSE 4

\* values[index].tobytes(): the element as the array holds it, in the byte
\* order of its dtype
tobytes(n, dtype) ==
    LET w == IF dtype.code \in {"i1", "u1"} THEN 1
             ELSE IF dtype.code \in {"i2", "u2"} THEN 2
             ELSE IF dtype.code \in {"i4", "u4"} THEN 4 ELSE 8
        le == IF dtype.order = ">" THEN 0 ELSE 1
    IN  IF dtype.code \in {"i1", "i2", "i4", "i8"}
        THEN PackSigned(n, w, le) ELSE PackUnsigned(n, w, le)

\* index is zero-based, as in the code
write_soa_field_value(field, index, le) ==
    LET val == field.values[index + 1]
    IN  CASE field.type = "numeric" /\ field.dtype.code # "" ->
                Wrote(tobytes(IntOf(val), field.dtype))
          [] field.type = "numeric" /\ field.dtype.code = "" ->
                IF ~(val.t \in {"int", "True", "False", "None"}) THEN StructError
                ELSE LET n == NumOf(val)
                         m == field.marker
                     IN  (CASE m = TYPE_INT8 -> PackS(n, 1, le)
                            [] m = TYPE_UINT8 -> PackU(n, 1, le)
                            [] m = TYPE_INT16 -> PackS(n, 2, le)
                            [] m = TYPE_UINT16 -> PackU(n, 2, le)
                            [] m = TYPE_INT32 -> PackS(n, 4, le)
                            [] m = TYPE_UINT32 -> PackU(n, 4, le)
                            [] m = TYPE_INT64 -> PackS(n, 8, le)
                            [] m = TYPE_UINT64 -> PackU(n, 8, le))
          [] field.type = "bool" ->
                Wrote(<<IF Truthy(val) THEN TYPE_BOOL_TRUE ELSE TYPE_BOOL_FALSE>>)
          [] field.type = "null" -> Wrote(<<>>)
          [] field.type = "string" /\ field.encoding = "fixed" ->
                LET encoded == Utf8(val.s)
                    padded == encoded \o Rep(0, IF field.length > Len(encoded)
                                                THEN field.length - Len(encoded)
                                                ELSE 0)
                IN  Wrote(SubSeq(padded, 1, field.length))
          [] field.type = "string" /\ field.encoding = "dict" ->
                PackU(PyInt(IndexOf(field.dict, val.s)),
                      IndexWidth(field.index_marker), le)
          [] field.type = "string" /\ field.encoding = "offset" ->
                PackU(PyInt(index), IndexWidth(field.index_marker), le)

\* offsets = [0]; for e in encoded: offsets.append(offsets[-1] + len(e))
Offsets(lens) == [k \in 1..(Len(lens) + 1) |-> SumRange(lens, 1, k - 1)]

\* The trailer with a table of the end offsets only (no leading 0).
SoaTrailerBytes_ends_only(field, le) ==
    LET encoded == [k \in 1..Len(field.values) |-> Utf8(field.values[k].s)]
        offsets == Tail(Offsets([k \in 1..Len(encoded) |-> Len(encoded[k])]))
        w == IndexWidth(field.index_marker)
    IN  IF \E k \in 1..Len(offsets) : ~PackUnsignedOk(PyInt(offsets[k]), w)
        THEN StructError
        ELSE Wrote(Flatten([k \in 1..Len(offsets) |->
                               PackUnsigned(PyInt(offsets[k]), w, le)])
                   \o Flatten(encoded))

\* The offset table and string buffer of one offset-encoded field.
SoaTrailerBytes(field, le) ==
    LET encoded == [k \in 1..Len(field.values) |-> Utf8(field.values[k].s)]
        offsets == Offsets([k \in 1..Len(encoded) |-> Len(encoded[k])])
        w == IndexWidth(field.index_marker)
    IN  IF \E k \in 1..Len(offsets) : ~PackUnsignedOk(PyInt(offsets[k]), w)
        THEN StructError
        ELSE Wrote(Flatten([k \in 1..Len(offsets) |->
                               PackUnsigned(PyInt(offsets[k]), w, le)])
                   \o Flatten(encoded))

\* [f for f in schema if f.get("encoding") == "offset"]
OffsetFields(schema) ==
    LET at == Ascending({k \in 1..Len(schema) : schema[k].encoding = "offset"})
    IN  [k \in 1..Len(at) |-> schema[at[k]]]

\* "[$" or "{$", the schema object, "#" and the count (dims = [count])
SoaHeaderBytes(schema, count, is_row_major, le) ==
    <<IF is_row_major THEN ARRAY_START ELSE OBJECT_START, CONTAINER_TYPE, OBJECT_START>>
    \o Flatten([k \in 1..Len(schema) |-> encode_soa_schema_field(schema[k], le)])
    \o <<OBJECT_END, CONTAINER_COUNT>> \o encode_int(PyInt(count), le)

(***************************************************************************)
(* The encoder as a machine.  A call of dump() is a stack of frames, one   *)
(* per active encode_array / encode_object / encode_soa; one step runs the *)
(* code up to the next loop iteration.                                     *)
(***************************************************************************)
Calls == {1, 2}

\* The frames of nested calls that the interpreter allows one call of dump():
\* the call that would go deeper raises RecursionError.
RecursionLimit == 6

Frame(kind, id) ==
    [kind |-> kind, id |-> id, order |-> <<>>, idx |-> 0, start |-> 0,
     schema |-> <<>>, count |-> 0, row_major |-> FALSE, i |-> 0, f |-> 0, t |-> 0,
     ret |-> NoneV]

\* What a call of encode_value leaves behind: the sink, seen_containers, the frame
\* it is now inside of (if any) and "running" or the exception it raised.
Ret(o, sn, push, st) == [out |-> o, seen |-> sn, push |-> push, status |-> st]

\* encode_array up to its loop
encode_array(c, item, o, sn) ==
    IF item.id \in sn THEN Ret(o, sn, <<>>, "CircularReference")
    ELSE LET n == Len(heap[item.id].items)
         IN  Ret(o \o <<ARRAY_START>>
                   \o (IF cfg[c].container_count
                       THEN <<CONTAINER_COUNT>> \o encode_int(PyInt(n), cfg[c].islittle)
                       ELSE <<>>),
                 sn \cup {item.id},
                 <<[Frame("array", item.id) EXCEPT
                       !.order = [k \in 1..n |-> k], !.start = Len(o)]>>,
                 "running")

\* encode_object up to its loop
encode_object(c, item, o, sn) ==
    IF item.id \in sn THEN Ret(o, sn, <<>>, "CircularReference")
    ELSE LET n == Len(heap[item.id].items)
             opened == o \o <<OBJECT_START>>
                         \o (IF cfg[c].container_count
                             THEN <<CONTAINER_COUNT>>
                                  \o encode_int(PyInt(n), cfg[c].islittle)
                             ELSE <<>>)
         IN  IF cfg[c].sort_keys /\ Unsortable(heap[item.id].keys)
             THEN Ret(opened, sn \cup {item.id}, <<>>, "TypeError")
             ELSE Ret(opened,
                      sn \cup {item.id},
                      <<[Frame("object", item.id) EXCEPT
                            !.order = IF cfg[c].sort_keys
                                      THEN SortedOrder(heap[item.id].keys, n)
                                      ELSE [k \in 1..n |-> k],
                            !.start = Len(o)]>>,
                      "running")

\* encode_soa from the header on, up to the payload loop: the header is written
\* field by field, and name.encode("utf-8") fails at the first field name that
\* is no str
encode_soa_header(c, item, schema, o, sn) ==
    LET count == IF IsRecArray(item)
                 THEN Len(heap[item.id].items) \div Len(heap[item.id].keys)
                 ELSE Len(heap[item.id].items)
        is_row_major == cfg[c].soa_format \in {"row", "r"}
        not_str == {k \in 1..Len(schema) : schema[k].name.t # "str"}
    IN  IF not_str # {}
        THEN LET bad == CHOOSE k \in not_str : \A j \in not_str : k <= j
             IN  Ret(o \o <<IF is_row_major THEN ARRAY_START ELSE OBJECT_START,
                             CONTAINER_TYPE, OBJECT_START>>
                       \o Flatten([k \in 1..(bad - 1) |->
                                      encode_soa_schema_field(schema[k],
                                                              cfg[c].islittle)]),
                     sn, <<>>, "AttributeError")
        ELSE Ret(o \o SoaHeaderBytes(schema, count, is_row_major, cfg[c].islittle),
                 sn,
                 <<[Frame("soa", item.id) EXCEPT
                       !.schema = schema, !.count = count,
                       !.row_major = is_row_major, !.start = Len(o)]>>,
                 "running")

\* encode_soa for a structured array or a list of dicts, up to the payload loop
encode_soa(c, item, o, sn) ==
    IF SchemaTypeError(item) THEN Ret(o, sn, <<>>, "TypeError")
    ELSE encode_soa_header(c, item, BuildSchema(item), o, sn)

\* The dispatch of encode_value numpy values first, the default function second.
encode_other_numpy_first(c, item, o, sn) ==
    IF IsRecArray(item)
    THEN IF can_encode_as_soa(item) THEN encode_soa(c, item, o, sn)
         ELSE Ret(o, sn, <<>>, "KeyError")
    ELSE IF cfg[c].default.kind # "None"
    THEN Ret(o, sn, <<Frame("default", item.id)>>, "running")
    ELSE Ret(o, sn, <<>>, "EncoderException")

\* The end of the dispatch of encode_value, for an item that is none of str,
\* None, bool, int, Mapping, Sequence: the default function if there is one
\* (called in the step default_call), else the numpy branch, else the exception.
\* With soa_format absent a structured array is encoded column-major; one with
\* a field that has no marker goes to encode_numpy, where __DTYPE_TO_MARKER has
\* no entry for the dtype of a structure.
encode_other(c, item, o, sn) ==
    IF cfg[c].default.kind # "None"
    THEN Ret(o, sn, <<Frame("default", item.id)>>, "running")
    ELSE IF IsRecArray(item)
    THEN IF can_encode_as_soa(item) THEN encode_soa(c, item, o, sn)
         ELSE Ret(o, sn, <<>>, "KeyError")
    ELSE Ret(o, sn, <<>>, "EncoderException")

encode_value(c, item, o, sn) ==
    CASE item.t = "str" -> Ret(o \o encode_string(item.s, cfg[c].islittle), sn, <<>>, "running")
      [] item.t = "None" -> Ret(o \o <<TYPE_NULL>>, sn, <<>>, "running")
      [] item.t = "True" -> Ret(o \o <<TYPE_BOOL_TRUE>>, sn, <<>>, "running")
      [] item.t = "False" -> Ret(o \o <<TYPE_BOOL_FALSE>>, sn, <<>>, "running")
      [] item.t = "int" ->
            Ret(o \o encode_int(IntOf(item), cfg[c].islittle), sn, <<>>, "running")
      [] IsDict(item) -> encode_object(c, item, o, sn)
      [] IsList(item) ->
            IF cfg[c].soa_format # "None" /\ can_encode_as_soa(item)
            THEN encode_soa(c, item, o, sn)
            ELSE encode_array(c, item, o, sn)
      [] IsRecArray(item) \/ (item.t = "ref" /\ heap[item.id].kind = "object") ->
            encode_other(c, item, o, sn)

\* What encode_value leaves when the frame it opens is within the recursion
\* limit; beyond it the call of encode_array, encode_object or encode_value
\* raises RecursionError before it writes.
Entered(c, below, r) ==
    IF Len(below \o r.push) > RecursionLimit
    THEN Ret(out[c], seen[c], <<>>, "RecursionError")
    ELSE r

\* The call continues below the frames `below` with what encode_value left.
Continue(c, below, r) ==
    /\ out' = [out EXCEPT ![c] = Entered(c, below, r).out]
    /\ seen' = [seen EXCEPT ![c] = Entered(c, below, r).seen]
    /\ stack' = [stack EXCEPT ![c] = below \o Entered(c, below, r).push]
    /\ status' = [status EXCEPT ![c] =
                     IF Entered(c, below, r).status # "running"
                     THEN Entered(c, below, r).status
                     ELSE IF below \o r.push = <<>> THEN "done" ELSE "running"]
    /\ UNCHANGED <<heap, numpy, cfg, root>>

Top(c) == stack[c][Len(stack[c])]
Below(c) == SubSeq(stack[c], 1, Len(stack[c]) - 1)
Running(c) == status[c] = "running" /\ stack[c] # <<>>

\* dump() with one set of open containers for all calls.
dump_shared_seen(c) ==
    /\ status[c] = "idle"
    /\ Continue(c, <<>>, encode_value(c, root[c], <<>>, UNION {seen[d] : d \in Calls}))

\* dump(obj, fp, ...): seen_containers starts as {}
dump(c) ==
    /\ status[c] = "idle"
    /\ Continue(c, <<>>, encode_value(c, root[c], <<>>, {}))

\* one iteration of "for value in item" of encode_array
encode_array_item(c) ==
    /\ Running(c)
    /\ Top(c).kind = "array"
    /\ Top(c).idx < Len(Top(c).order)
    /\ LET fr == Top(c)
           value == heap[fr.id].items[fr.order[fr.idx + 1]]
       IN  Continue(c, Append(Below(c), [fr EXCEPT !.idx = fr.idx + 1]),
                    encode_value(c, value, out[c], seen[c]))

\* The key written the way a string value is.
EncodeKey_as_string(key, le) == encode_string(key.s, le)

\* the key of an entry: its length, then its bytes
EncodeKey(key, le) ==
    LET encoded_key == Utf8(key.s)
        length == Len(encoded_key)
    IN  (IF length < 256 THEN SMALL_UINTS_ENCODED(le, length)
         ELSE encode_int(PyInt(length), le)) \o encoded_key

\* one iteration of "for key, value in ..." of encode_object
encode_object_entry(c) ==
    /\ Running(c)
    /\ Top(c).kind = "object"
    /\ Top(c).idx < Len(Top(c).order)
    /\ LET fr == Top(c)
           key == heap[fr.id].keys[fr.order[fr.idx + 1]]
           value == heap[fr.id].items[fr.order[fr.idx + 1]]
           below == Append(Below(c), [fr EXCEPT !.idx = fr.idx + 1])
       IN  IF key.t # "str"
           THEN Continue(c, below, Ret(out[c], seen[c], <<>>, "EncoderException"))
           ELSE Continue(c, below,
                         encode_value(c, value,
                                      out[c] \o EncodeKey(key, cfg[c].islittle),
                                      seen[c]))

\* encode_array closing with "]" in counted mode too.
end_array_always_closes(c) ==
    /\ Running(c)
    /\ Top(c).kind = "array"
    /\ Top(c).idx = Len(Top(c).order)
    /\ Continue(c, Below(c),
                Ret(out[c] \o <<ARRAY_END>>, seen[c] \ {Top(c).id}, <<>>, "running"))

\* encode_array returning without taking its identity out of seen_containers.
end_array_stays_open(c) ==
    /\ Running(c)
    /\ Top(c).kind = "array"
    /\ Top(c).idx = Len(Top(c).order)
    /\ Continue(c, Below(c),
                Ret(out[c] \o (IF cfg[c].container_count THEN <<>> ELSE <<ARRAY_END>>),
                    seen[c], <<>>, "running"))

\* after the loop of encode_array
end_array(c) ==
    /\ Running(c)
    /\ Top(c).kind = "array"
    /\ Top(c).idx = Len(Top(c).order)
    /\ Continue(c, Below(c),
                Ret(out[c] \o (IF cfg[c].container_count THEN <<>> ELSE <<ARRAY_END>>),
                    seen[c] \ {Top(c).id}, <<>>, "running"))

\* encode_object returning without taking its identity out of seen_containers.
end_object_stays_open(c) ==
    /\ Running(c)
    /\ Top(c).kind = "object"
    /\ Top(c).idx = Len(Top(c).order)
    /\ Continue(c, Below(c),
                Ret(out[c] \o (IF cfg[c].container_count THEN <<>> ELSE <<OBJECT_END>>),
                    seen[c], <<>>, "running"))

\* after the loop of encode_object
end_object(c) ==
    /\ Running(c)
    /\ Top(c).kind = "object"
    /\ Top(c).idx = Len(Top(c).order)
    /\ Continue(c, Below(c),
                Ret(out[c] \o (IF cfg[c].container_count THEN <<>> ELSE <<OBJECT_END>>),
                    seen[c] \ {Top(c).id}, <<>>, "running"))

\* default(item) is called and what it returns is handed to encode_value, with
\* the sink, the configuration and seen_containers of the call.
\* default(item): the function raises, or returns the value it is configured
\* with ("const"), the item it was given ("same"), or a new list that holds
\* the item ("wrap")
default_call(c) ==
    /\ Running(c)
    /\ Top(c).kind = "default"
    /\ Top(c).idx = 0
    /\ LET kind == cfg[c].default.kind
           returned == CASE kind = "const" -> cfg[c].default.ret
                         [] kind = "same" -> Ref(Top(c).id)
                         [] kind = "wrap" -> Ref(Len(heap) + 1)
                         [] OTHER -> NoneV
       IN  /\ heap' = IF kind = "wrap"
                      THEN Append(heap, ListObj(<<Ref(Top(c).id)>>))
                      ELSE heap
           /\ stack' = [stack EXCEPT ![c] =
                           Append(Below(c),
                                  [Top(c) EXCEPT !.idx = 1, !.ret = returned])]
           /\ status' = [status EXCEPT ![c] =
                            IF kind = "raise" THEN "DefaultRaised" ELSE "running"]
           /\ UNCHANGED <<numpy, cfg, root, out, seen>>

\* The nested call running in the frame of the call that made it.
default_encode_in_place(c) ==
    /\ Running(c)
    /\ Top(c).kind = "default"
    /\ Top(c).idx = 1
    /\ Continue(c, Below(c), encode_value(c, Top(c).ret, out[c], seen[c]))

\* __encode_value(fp_write, default(item), seen_containers, ...): the nested
\* call of the dispatch with what the function returned
default_encode(c) ==
    /\ Running(c)
    /\ Top(c).kind = "default"
    /\ Top(c).idx = 1
    /\ Continue(c, Append(Below(c), [Top(c) EXCEPT !.idx = 2]),
                encode_value(c, Top(c).ret, out[c], seen[c]))

\* the encode_value that default's result was handed to has returned
default_return(c) ==
    /\ Running(c)
    /\ Top(c).kind = "default"
    /\ Top(c).idx = 2
    /\ Continue(c, Below(c), Ret(out[c], seen[c], <<>>, "running"))

\* The payload loops of encode_soa have run to their end.
PayloadDone(fr) ==
    \/ fr.schema = <<>>
    \/ fr.count = 0
    \/ fr.row_major /\ fr.i = fr.count
    \/ (~fr.row_major) /\ fr.f = Len(fr.schema)

\* The loop counters advancing by rows within a field in either mode.
NextElement_by_column(fr) ==
    IF fr.i + 1 < fr.count THEN [fr EXCEPT !.i = fr.i + 1]
    ELSE IF fr.row_major /\ fr.f + 1 = Len(fr.schema)
    THEN [fr EXCEPT !.i = fr.count, !.f = 0]
    ELSE [fr EXCEPT !.i = 0, !.f = fr.f + 1]

\* The loop counters after one more element: rows within a field when columnar,
\* fields within a row when interleaved.
NextElement(fr) ==
    IF fr.row_major
    THEN IF fr.f + 1 < Len(fr.schema) THEN [fr EXCEPT !.f = fr.f + 1]
         ELSE [fr EXCEPT !.f = 0, !.i = fr.i + 1]
    ELSE IF fr.i + 1 < fr.count THEN [fr EXCEPT !.i = fr.i + 1]
         ELSE [fr EXCEPT !.i = 0, !.f = fr.f + 1]

\* one call of write_soa_field_value from the payload loops
soa_payload(c) ==
    /\ Running(c)
    /\ Top(c).kind = "soa"
    /\ ~PayloadDone(Top(c))
    /\ LET fr == Top(c)
           w == write_soa_field_value(fr.schema[fr.f + 1], fr.i, cfg[c].islittle)
       IN  IF w.ok
           THEN Continue(c, Below(c),
                         Ret(out[c] \o w.bytes, seen[c], <<NextElement(fr)>>, "running"))
           ELSE Continue(c, Below(c), Ret(out[c], seen[c], <<fr>>, "struct.error"))

\* one iteration of "for field in offset_fields"
soa_trailer(c) ==
    /\ Running(c)
    /\ Top(c).kind = "soa"
    /\ PayloadDone(Top(c))
    /\ Top(c).t < Len(OffsetFields(Top(c).schema))
    /\ LET fr == Top(c)
           w == SoaTrailerBytes(OffsetFields(fr.schema)[fr.t + 1], cfg[c].islittle)
       IN  IF w.ok
           THEN Continue(c, Below(c),
                         Ret(out[c] \o w.bytes, seen[c],
                             <<[fr EXCEPT !.t = fr.t + 1]>>, "running"))
           ELSE Continue(c, Below(c), Ret(out[c], seen[c], <<fr>>, "struct.error"))

\* encode_soa returns
soa_return(c) ==
    /\ Running(c)
    /\ Top(c).kind = "soa"
    /\ PayloadDone(Top(c))
    /\ Top(c).t = Len(OffsetFields(Top(c).schema))
    /\ Continue(c, Below(c), Ret(out[c], seen[c], <<>>, "running"))

(***************************************************************************)
(* Inputs.                                                                 *)
(***************************************************************************)
\* default=None, and a default function: one that returns the same value
\* whatever it is given (kind "const"), one that raises (kind "raise"), one
\* that returns its argument (kind "same") and one that returns a new list
\* holding its argument (kind "wrap")
NoDefault == [kind |-> "None", ret |-> NoneV]

\* The defaults of dump() that the model carries.
DefaultCfg ==
    [container_count |-> FALSE, sort_keys |-> FALSE, islittle |-> 1,
     soa_format |-> "None", default |-> NoDefault]

\* All sequences over S of length 0..n
RECURSIVE SeqsUpTo(_, _)
SeqsUpTo(S, n) ==
    IF n = 0 THEN {<<>>}
    ELSE LET shorter == SeqsUpTo(S, n - 1)
         IN  shorter \cup {Append(q, x) : q \in shorter, x \in S}

\* Integers around every width boundary of both sign classes, and past 64 bits.
BoundaryExponents == {7, 8, 15, 16, 31, 32, 63, 64, 70}

BoundaryInts ==
    UNION {{PyPred(Pow2(k)), Pow2(k), PySucc(Pow2(k)),
            PyNeg(PyPred(Pow2(k))), PyNeg(Pow2(k)), PyNeg(PySucc(Pow2(k)))} :
           k \in BoundaryExponents}

SmallInts == {PyInt(n) : n \in (0 - MaxSmallInt)..MaxSmallInt}

\* 'a' (1 byte), e-acute (2 bytes), the euro sign (3 bytes), U+1F600 (4 bytes)
Alphabet == {97, 233, 8364, 128512}

\* Strings whose UTF-8 length is around the one-byte length prefix, and past it.
LongStrings ==
    {Rep(97, 255), Rep(97, 256), Rep(233, 128), Rep(97, 257), Rep(8364, 100)}

ScalarInputs ==
    {IntV(n) : n \in SmallInts \cup BoundaryInts}
    \cup {StrV(s) : s \in SeqsUpTo(Alphabet, MaxStrLen) \cup LongStrings}
    \cup {NoneV, TrueV, FalseV}

\* Call 1 encodes one scalar, in either byte order; call 2 is never made.
InitScalar ==
    /\ heap = <<>>
    /\ numpy = TRUE
    /\ \E le \in {0, 1} :
           cfg = [c \in Calls |-> IF c = 1 THEN [DefaultCfg EXCEPT !.islittle = le]
                                  ELSE DefaultCfg]
    /\ \E v \in ScalarInputs : root = [c \in Calls |-> IF c = 1 THEN v ELSE NoneV]
    /\ status = [c \in Calls |-> "idle"]
    /\ out = [c \in Calls |-> <<>>]
    /\ seen = [c \in Calls |-> {}]
    /\ stack = [c \in Calls |-> <<>>]

NextScalar == dump(1)

SpecScalar == InitScalar /\ [][NextScalar]_vars

(***************************************************************************)
(* Value graphs: two containers that may hold an integer, themselves or    *)
(* each other, encoded by one call under every configuration.              *)
(***************************************************************************)
\* 'a' (1 byte) and 'b' e-acute (3 bytes): keys with and without a 1-byte encoding
KeyPool == {StrV(<<97>>), StrV(<<98, 233>>)}

\* A key of 256 bytes, past the one-byte length prefix.
LongKey == StrV(Rep(107, 256))

ChildPool == {IntV(PyInt(1)), Ref(1), Ref(2)}

\* Sequences of distinct keys
KeySeqs(n) ==
    {ks \in SeqsUpTo(KeyPool, n) : \A i, j \in 1..Len(ks) : i # j => ks[i] # ks[j]}

ListShapes == {ListObj(items) : items \in SeqsUpTo(ChildPool, MaxKids)}

DictShapes ==
    {DictObj(ks, items) : ks \in KeySeqs(MaxKids), items \in SeqsUpTo(ChildPool, MaxKids)}

Shapes ==
    ListShapes
    \cup {d \in DictShapes : Len(d.keys) = Len(d.items)}
    \cup {DictObj(<<LongKey>>, <<v>>) : v \in ChildPool}

Refers(obj, i) == \E k \in 1..Len(obj.items) : obj.items[k] = Ref(i)

Configs ==
    {[container_count |-> cc, sort_keys |-> sk, islittle |-> 1, soa_format |-> soa,
      default |-> NoDefault] :
        cc \in BOOLEAN, sk \in BOOLEAN, soa \in {"None", "col", "row"}}

\* Call 1 encodes container 1.  Container 2 matters only when container 1 refers
\* to it, and numpy only when soa_format is set.
Init ==
    /\ heap \in {<<o1, o2>> : o1 \in Shapes, o2 \in Shapes}
    /\ ~Refers(heap[1], 2) => heap[2] = ListObj(<<>>)
    /\ numpy \in BOOLEAN
    /\ \E k \in Configs :
           /\ cfg = [c \in Calls |-> IF c = 1 THEN k ELSE DefaultCfg]
           /\ k.soa_format = "None" => numpy
    /\ root = [c \in Calls |-> IF c = 1 THEN Ref(1) ELSE NoneV]
    /\ status = [c \in Calls |-> "idle"]
    /\ out = [c \in Calls |-> <<>>]
    /\ seen = [c \in Calls |-> {}]
    /\ stack = [c \in Calls |-> <<>>]

\* No column of these graphs is offset-encoded (the rows of a table are one and
\* the same dict), so encode_soa never has a trailer to write here.
Next ==
    \/ dump(1)
    \/ encode_array_item(1)
    \/ encode_object_entry(1)
    \/ end_array(1)
    \/ end_object(1)
    \/ soa_payload(1)
    \/ soa_return(1)

Spec == Init /\ [][Next]_vars

(***************************************************************************)
(* Tables: a list of dicts with one key set, encoded as SOA by one call.   *)
(***************************************************************************)
\* Column values: empty, short, and two over 32 bytes (33 'x', 130 'y'; three
\* rows with two of the latter pass 255 bytes in total)
StrPool == {<<>>, <<98, 99>>, Rep(120, 33), Rep(121, 130)}
LongPool == {<<>>, Rep(120, 33)}

MaxPairRows == 2

NonEmptySeqs(S, n) == SeqsUpTo(S, n) \ {<<>>}

\* A table as its heap: container 1 is the list, containers 2.. are its rows.
\* names: the keys of every row, in order; cols[k]: the values of column k.
\* A column longer than the first one is cut to its length.
TableHeap(names, cols) ==
    LET n == Len(cols[1])
    IN  <<ListObj([i \in 1..n |-> Ref(i + 1)])>>
        \o [i \in 1..n |-> DictObj(names, [k \in 1..Len(names) |-> cols[k][i]])]

FieldN == StrV(<<110>>)
FieldM == StrV(<<109>>)

StrColumn(col) == [i \in 1..Len(col) |-> StrV(col[i])]

TableInputs ==
    {TableHeap(<<FieldN>>, <<StrColumn(col)>>) : col \in NonEmptySeqs(StrPool, MaxRows)}
    \cup {TableHeap(<<FieldN, FieldM>>, <<StrColumn(a), StrColumn(b)>>) :
             a \in NonEmptySeqs(LongPool, MaxPairRows),
             b \in [1..MaxPairRows -> LongPool]}

SoaConfigs ==
    {[container_count |-> FALSE, sort_keys |-> FALSE, islittle |-> le,
      soa_format |-> soa, default |-> NoDefault] : le \in {0, 1}, soa \in {"col", "row"}}

InitSoa ==
    /\ heap \in TableInputs
    /\ numpy = TRUE
    /\ \E k \in SoaConfigs :
           cfg = [c \in Calls |-> IF c = 1 THEN k ELSE DefaultCfg]
    /\ root = [c \in Calls |-> IF c = 1 THEN Ref(1) ELSE NoneV]
    /\ status = [c \in Calls |-> "idle"]
    /\ out = [c \in Calls |-> <<>>]
    /\ seen = [c \in Calls |-> {}]
    /\ stack = [c \in Calls |-> <<>>]

NextSoa ==
    \/ dump(1)
    \/ soa_payload(1)
    \/ soa_trailer(1)
    \/ soa_return(1)

SpecSoa == InitSoa /\ [][NextSoa]_vars

(***************************************************************************)
(* Pairs: two calls of dump(), one after the other, under one              *)
(* configuration.  Call 1 encodes a mapping, call 2 a mapping with the     *)
(* same entries inserted in the same or in the reverse order; a mapping    *)
(* nested in them (the row of a list) comes in both orders as well.        *)
(***************************************************************************)
Flip(seq, flip) == IF flip THEN Reverse(seq) ELSE seq

\* Containers 1, 3, 5 are the mapping of call 1, its list and the list's row;
\* containers 2, 4, 6 are their counterparts for call 2.
PairHeap(ks, vs, n, rks, rvs, flipTop, flipRow) ==
    <<DictObj(ks, vs),
      DictObj(Flip(ks, flipTop),
              Flip([i \in 1..Len(vs) |-> IF vs[i] = Ref(3) THEN Ref(4) ELSE vs[i]],
                   flipTop)),
      ListObj([i \in 1..n |-> Ref(5)]),
      ListObj([i \in 1..n |-> Ref(6)]),
      DictObj(rks, rvs),
      DictObj(Flip(rks, flipRow), Flip(rvs, flipRow))>>

PairInputs ==
    {PairHeap(ks, vs, n, rks, rvs, ft, fr) :
        ks \in KeySeqs(MaxKids) \ {<<>>},
        vs \in SeqsUpTo({IntV(PyInt(1)), Ref(3)}, MaxKids),
        n \in 0..MaxKids,
        rks \in KeySeqs(MaxKids),
        rvs \in SeqsUpTo({IntV(PyInt(1)), IntV(PyInt(2))}, MaxKids),
        ft \in BOOLEAN, fr \in BOOLEAN}

PairConfigs ==
    {[container_count |-> FALSE, sort_keys |-> sk, islittle |-> 1, soa_format |-> soa,
      default |-> NoDefault] :
        sk \in BOOLEAN, soa \in {"None", "col"}}

\* The list matters only when the mapping refers to it, the row only when the
\* list is not empty.
InitPair ==
    /\ heap \in {h \in PairInputs :
                    /\ Len(h[1].keys) = Len(h[1].items)
                    /\ Len(h[5].keys) = Len(h[5].items)
                    /\ ~Refers(h[1], 3) => h[3] = ListObj(<<>>)
                    /\ h[3] = ListObj(<<>>) => h[5] = DictObj(<<>>, <<>>)}
    /\ numpy = TRUE
    /\ \E k \in PairConfigs : cfg = [c \in Calls |-> k]
    /\ root = [c \in Calls |-> Ref(c)]
    /\ status = [c \in Calls |-> "idle"]
    /\ out = [c \in Calls |-> <<>>]
    /\ seen = [c \in Calls |-> {}]
    /\ stack = [c \in Calls |-> <<>>]

\* Call 2 is made when call 1 has returned or raised.
Turn(c) == c = 1 \/ status[1] \notin {"idle", "running"}

\* No column of these rows is a string column, so encode_soa has no trailer here.
NextPair ==
    \/ \E c \in Calls : Turn(c) /\ dump(c)
    \/ \E c \in Calls : Turn(c) /\ encode_object_entry(c)
    \/ \E c \in Calls : Turn(c) /\ end_object(c)
    \/ \E c \in Calls : Turn(c) /\ encode_array_item(c)
    \/ \E c \in Calls : Turn(c) /\ end_array(c)
    \/ \E c \in Calls : Turn(c) /\ soa_payload(c)
    \/ \E c \in Calls : Turn(c) /\ soa_return(c)

SpecPair == InitPair /\ [][NextPair]_vars

(***************************************************************************)
(* Wide tables: one string column whose dictionary passes 256 entries, or  *)
(* whose total length passes 255 bytes, encoded column-major by one call.  *)
(***************************************************************************)
WideRows == 860

\* The rows of a column of few bytes: more rows than one byte can number.
OffsetRows == 257

\* Columns of u distinct values of four letters, repeated in turn over WideRows
\* rows, columns of two values of 33 and t - 33 bytes, and columns of n rows
\* that hold one value of 33 bytes, 77 distinct values of one byte and the
\* empty string in all other rows.
WideInputs ==
    LET Str4(k) == <<97 + (k \div 26), 97 + (k % 26), 97, 97>>
        CycleColumn(u) == [i \in 1..WideRows |-> Str4((i - 1) % u)]
        LongColumn(t) == <<Rep(120, 33), Rep(121, t - 33)>>
        SparseColumn(n) == [i \in 1..n |-> IF i = 1 THEN Rep(120, 33)
                                           ELSE IF i <= 78 THEN <<i - 1>>
                                           ELSE <<>>]
    IN  {TableHeap(<<FieldN>>, <<StrColumn(CycleColumn(u))>>) : u \in {255, 256, 257}}
        \cup {TableHeap(<<FieldN>>, <<StrColumn(LongColumn(t))>>) : t \in {255, 256}}
        \cup {TableHeap(<<FieldN>>, <<StrColumn(SparseColumn(n))>>) :
                  n \in {OffsetRows - 1, OffsetRows}}

InitWide ==
    /\ heap \in WideInputs
    /\ numpy = TRUE
    /\ \E k \in {k \in SoaConfigs : k.soa_format = "col"} :
           cfg = [c \in Calls |-> IF c = 1 THEN k ELSE DefaultCfg]
    /\ root = [c \in Calls |-> IF c = 1 THEN Ref(1) ELSE NoneV]
    /\ status = [c \in Calls |-> "idle"]
    /\ out = [c \in Calls |-> <<>>]
    /\ seen = [c \in Calls |-> {}]
    /\ stack = [c \in Calls |-> <<>>]

NextWide ==
    \/ dump(1)
    \/ soa_payload(1)
    \/ soa_trailer(1)
    \/ soa_return(1)

SpecWide == InitWide /\ [][NextWide]_vars

(***************************************************************************)
(* Typed columns: tables whose cells are integers of either sign, None,    *)
(* booleans, strings or a nested list.  Call 1 encodes the table           *)
(* column-major, then call 2 encodes it row-major, in one byte order.      *)
(***************************************************************************)
MaxColRows == 2

\* Integers at the edges of the ranges of the column markers
ColumnInts ==
    {PyInt(1), PyNeg(PyInt(1)), PyInt(127), PyNeg(PyInt(128)), PyInt(200),
     PyNeg(PyInt(200)), PyInt(256), PyNeg(PyInt(40000)), Pow2(31), PyNeg(Pow2(31)),
     Pow2(32), Pow2(63), PyNeg(Pow2(63))}

\* The nested list [1] as a cell; ColsHeap gives it its place in the heap.
NestedCell == Ref(0)

\* The table of TableHeap, followed by the list [1] that its nested cells are.
ColsHeap(names, cols) ==
    LET n == Len(cols[1])
        placed == [k \in 1..Len(cols) |->
                      [i \in 1..n |-> IF cols[k][i] = NestedCell
                                      THEN Ref(n + 2) ELSE cols[k][i]]]
    IN  TableHeap(names, placed) \o <<ListObj(<<IntV(PyInt(1))>>)>>

\* Structured arrays of one or two integer fields, little- or big-endian:
\* np.array([(1, 258)], dtype=[("n", "<i2"), ("m", ">u4")]) and the like.  The
\* elements are 1, 258 = 0x0102 and -2, each within the range of its dtype.
ArrayInputs ==
    LET Dtypes == {[order |-> "|", code |-> "i1"], [order |-> "<", code |-> "i2"],
                   [order |-> ">", code |-> "i2"], [order |-> ">", code |-> "u4"]}
        ArrayCells == {IntV(PyInt(1)), IntV(PyInt(258)), IntV(PyNeg(PyInt(2)))}
        InDtype(v, dtype) ==
            CASE dtype.code = "i1" -> v # IntV(PyInt(258))
              [] dtype.code = "i2" -> TRUE
              [] dtype.code = "u4" -> ~v.neg
    IN  {h \in {<<RecArray(names, dtypes, items)>> :
                   names \in {<<FieldN>>, <<FieldN, FieldM>>},
                   dtypes \in SeqsUpTo(Dtypes, 2),
                   items \in SeqsUpTo(ArrayCells, 2 * MaxPairRows)} :
            /\ Len(h[1].dtypes) = Len(h[1].keys)
            /\ Len(h[1].items) % Len(h[1].keys) = 0
            /\ \A j \in 1..Len(h[1].items) :
                   InDtype(h[1].items[j], h[1].dtypes[((j - 1) % Len(h[1].keys)) + 1])}

\* One column of up to MaxColRows cells, two columns of up to MaxPairRows
\* (numbers and None on the left; strings and the nested list on the right),
\* and the structured arrays.
ColsInputs ==
    LET FirstCells == {IntV(n) : n \in ColumnInts}
                      \cup {NoneV, TrueV, StrV(<<>>), StrV(<<98, 99>>),
                            StrV(Rep(120, 33)), NestedCell}
        MoreCells == {NoneV, TrueV, IntV(PyInt(1)), StrV(<<98, 99>>), NestedCell}
        LeftCells == {IntV(PyInt(1)), IntV(PyInt(300)), NoneV}
        RightCells == {StrV(<<98, 99>>), StrV(Rep(120, 33)), NestedCell}
    IN  {ColsHeap(<<FieldN>>, <<(<<x>> \o more)>>) :
            x \in FirstCells, more \in SeqsUpTo(MoreCells, MaxColRows - 1)}
        \cup {ColsHeap(<<FieldN, FieldM>>, <<a, b>>) :
                 a \in NonEmptySeqs(LeftCells, MaxPairRows),
                 b \in [1..MaxPairRows -> RightCells]}
        \cup ArrayInputs

InitCols ==
    /\ heap \in ColsInputs
    /\ numpy = TRUE
    /\ \E le \in {0, 1} :
           cfg = [c \in Calls |->
                     [DefaultCfg EXCEPT !.islittle = le,
                                        !.soa_format = IF c = 1 THEN "col" ELSE "row"]]
    /\ root = [c \in Calls |-> Ref(1)]
    /\ status = [c \in Calls |-> "idle"]
    /\ out = [c \in Calls |-> <<>>]
    /\ seen = [c \in Calls |-> {}]
    /\ stack = [c \in Calls |-> <<>>]

NextCols ==
    \/ \E c \in Calls : Turn(c) /\ dump(c)
    \/ \E c \in Calls : Turn(c) /\ soa_payload(c)
    \/ \E c \in Calls : Turn(c) /\ soa_trailer(c)
    \/ \E c \in Calls : Turn(c) /\ soa_return(c)

SpecCols == InitCols /\ [][NextCols]_vars

(***************************************************************************)
(* Keys: a mapping whose keys are strings, integers or None, encoded on    *)
(* its own, inside a mapping or inside a list, under every configuration.  *)
(***************************************************************************)
\* Container 2 is the mapping; container 1 holds it once, under a key or as the
\* rows of a list.
KeysInputs ==
    LET pool == {StrV(<<97>>), StrV(<<98>>), IntV(PyInt(1)), IntV(PyInt(2)), NoneV}
        keyseqs == {ks \in SeqsUpTo(pool, MaxKids) :
                       \A i, j \in 1..Len(ks) : i # j => ks[i] # ks[j]}
    IN  {<<o1, DictObj(ks, [k \in 1..Len(ks) |-> IntV(PyInt(k))])>> :
            o1 \in {ListObj(<<Ref(2)>>), ListObj(<<Ref(2), Ref(2)>>),
                    DictObj(<<StrV(<<97>>)>>, <<Ref(2)>>)},
            ks \in keyseqs}

InitKeys ==
    /\ heap \in KeysInputs
    /\ numpy = TRUE
    /\ \E k \in Configs : cfg = [c \in Calls |-> IF c = 1 THEN k ELSE DefaultCfg]
    /\ \E r \in {1, 2} : root = [c \in Calls |-> IF c = 1 THEN Ref(r) ELSE NoneV]
    /\ status = [c \in Calls |-> "idle"]
    /\ out = [c \in Calls |-> <<>>]
    /\ seen = [c \in Calls |-> {}]
    /\ stack = [c \in Calls |-> <<>>]

SpecKeys == InitKeys /\ [][Next]_vars

(***************************************************************************)
(* Default functions.  Call 1 encodes a value X the dispatch has no        *)
(* built-in branch for (an instance, or a structured array), on its own,   *)
(* in a list or in a mapping, with or without a default function; call 2   *)
(* then encodes, under the same configuration, the same structure with     *)
(* what the function returns in the place of X.                            *)
(***************************************************************************)
\* Containers: 1 holds X, 2 is X, 3 is a container the function may return
\* (with its row 4), 5 is container 1 with the function's result for X.
\* held: "bare", "list" or "dict"; ret: what the function returns.
DefaultInputs ==
    LET DefaultHeap(held, x, ret, o3) ==
            LET held_ret == IF ret = Ref(1) THEN Ref(5) ELSE ret
                holder(v) == CASE held = "bare" -> ListObj(<<>>)
                               [] held = "list" -> ListObj(<<IntV(PyInt(1)), v>>)
                               [] held = "dict" -> DictObj(<<StrV(<<97>>)>>, <<v>>)
            IN  <<holder(Ref(2)), x, o3, DictObj(<<StrV(<<98>>)>>, <<IntV(PyInt(2))>>),
                  holder(held_ret)>>
    IN  {[held |-> held, default |-> d, heap |-> DefaultHeap(held, x, d.ret, o3)] :
            held \in {"bare", "list", "dict"},
            x \in {Instance,
                   RecArray(<<FieldN>>, <<[order |-> "<", code |-> "i2"]>>,
                            <<IntV(PyInt(258))>>)},
            d \in {NoDefault, [kind |-> "raise", ret |-> NoneV]}
                  \cup {[kind |-> "const", ret |-> r] :
                           r \in {IntV(PyInt(7)), StrV(<<97>>), NoneV, Ref(1), Ref(3)}},
            o3 \in {ListObj(<<TrueV>>), DictObj(<<StrV(<<99>>)>>, <<StrV(<<>>)>>),
                    ListObj(<<Ref(4)>>), ListObj([k \in 1..MaxKids |-> Ref(4)])}}

InitDefault ==
    /\ \E in \in DefaultInputs :
           /\ heap = in.heap
           /\ in.default.ret # Ref(3) => in.heap[3] = ListObj(<<TrueV>>)
           /\ \E cc \in BOOLEAN, soa \in {"None", "col"} :
                  cfg = [c \in Calls |->
                            [DefaultCfg EXCEPT !.container_count = cc,
                                               !.soa_format = soa,
                                               !.default = in.default]]
           /\ root = [c \in Calls |->
                         IF in.held # "bare" THEN Ref(IF c = 1 THEN 1 ELSE 5)
                         ELSE IF c = 1 THEN Ref(2) ELSE in.default.ret]
    /\ numpy = TRUE
    /\ status = [c \in Calls |-> "idle"]
    /\ out = [c \in Calls |-> <<>>]
    /\ seen = [c \in Calls |-> {}]
    /\ stack = [c \in Calls |-> <<>>]

NextDefault ==
    \/ \E c \in Calls : Turn(c) /\ dump(c)
    \/ \E c \in Calls : Turn(c) /\ default_call(c)
    \/ \E c \in Calls : Turn(c) /\ default_encode(c)
    \/ \E c \in Calls : Turn(c) /\ default_return(c)
    \/ \E c \in Calls : Turn(c) /\ encode_array_item(c)
    \/ \E c \in Calls : Turn(c) /\ end_array(c)
    \/ \E c \in Calls : Turn(c) /\ encode_object_entry(c)
    \/ \E c \in Calls : Turn(c) /\ end_object(c)
    \/ \E c \in Calls : Turn(c) /\ soa_payload(c)
    \/ \E c \in Calls : Turn(c) /\ soa_return(c)

SpecDefault == InitDefault /\ [][NextDefault]_vars

(***************************************************************************)
(* Interleaving: two calls of dump(), each with its own sink, whose steps  *)
(* alternate in any order.  Call 1 encodes container 1; call 2 encodes the *)
(* same container or container 2.                                          *)
(***************************************************************************)
InterInputs ==
    LET items == SeqsUpTo(ChildPool, MaxKids)
        keys == <<StrV(<<98>>), StrV(<<97>>), StrV(<<99>>), StrV(<<100>>)>>
    IN  {<<o1, o2>> :
            o1 \in {ListObj(s) : s \in items}
                   \cup {DictObj(SubSeq(keys, 1, Len(s)), s) : s \in items},
            o2 \in {ListObj(<<>>), ListObj(<<Ref(1)>>), ListObj(<<IntV(PyInt(1))>>),
                    DictObj(<<StrV(<<97>>)>>, <<Ref(2)>>)}}

InitInter ==
    /\ heap \in InterInputs
    /\ numpy = TRUE
    /\ \E cc \in BOOLEAN, sk \in BOOLEAN :
           cfg = [c \in Calls |->
                     [DefaultCfg EXCEPT !.container_count = cc, !.sort_keys = sk]]
    /\ \E r \in {1, 2} : root = [c \in Calls |-> IF c = 1 THEN Ref(1) ELSE Ref(r)]
    /\ status = [c \in Calls |-> "idle"]
    /\ out = [c \in Calls |-> <<>>]
    /\ seen = [c \in Calls |-> {}]
    /\ stack = [c \in Calls |-> <<>>]

NextInter ==
    \/ \E c \in Calls : dump(c)
    \/ \E c \in Calls : encode_array_item(c)
    \/ \E c \in Calls : end_array(c)
    \/ \E c \in Calls : encode_object_entry(c)
    \/ \E c \in Calls : end_object(c)

SpecInter == InitInter /\ [][NextInter]_vars

(***************************************************************************)
(* Sharing: call 1 encodes a container that holds one container x more     *)
(* than once; call 2 then encodes the same structure built from distinct,  *)
(* equal containers, under the same configuration.                         *)
(***************************************************************************)
\* Containers: 1 holds x = 2 twice, 3 is the child y of x; 4 holds the copies
\* 5 and 6 of x, whose children are the copies 7 and 8 of y.
SharedInputs ==
    LET keys == <<StrV(<<98>>), StrV(<<97>>), StrV(<<99>>), StrV(<<100>>)>>
        holder(kind, a, b) ==
            CASE kind = "pair" -> ListObj(<<a, b>>)
              [] kind = "apart" -> ListObj(<<a, IntV(PyInt(1)), b>>)
              [] kind = "dict" -> DictObj(<<StrV(<<97>>), StrV(<<98>>)>>, <<a, b>>)
        x(items, as_list, y) ==
            LET placed == [k \in 1..Len(items) |->
                              IF items[k] = Ref(3) THEN Ref(y) ELSE items[k]]
            IN  IF as_list THEN ListObj(placed)
                ELSE DictObj(SubSeq(keys, 1, Len(items)), placed)
    IN  {<<holder(kind, Ref(2), Ref(2)), x(items, as_list, 3), y,
           holder(kind, Ref(5), Ref(6)), x(items, as_list, 7), x(items, as_list, 8),
           y, y>> :
            kind \in {"pair", "apart", "dict"},
            items \in SeqsUpTo({IntV(PyInt(1)), Ref(3)}, MaxKids),
            as_list \in BOOLEAN,
            y \in {ListObj(<<>>), DictObj(<<StrV(<<97>>)>>, <<IntV(PyInt(2))>>)}}

InitShared ==
    /\ heap \in SharedInputs
    /\ numpy = TRUE
    /\ \E cc \in BOOLEAN, sk \in BOOLEAN, soa \in {"None", "col"} :
           cfg = [c \in Calls |->
                     [DefaultCfg EXCEPT !.container_count = cc, !.sort_keys = sk,
                                        !.soa_format = soa]]
    /\ root = [c \in Calls |-> IF c = 1 THEN Ref(1) ELSE Ref(4)]
    /\ status = [c \in Calls |-> "idle"]
    /\ out = [c \in Calls |-> <<>>]
    /\ seen = [c \in Calls |-> {}]
    /\ stack = [c \in Calls |-> <<>>]

SpecShared == InitShared /\ [][NextPair]_vars

(***************************************************************************)
(* Default functions that hand back what the encoder cannot encode         *)
(* (SpecLoop): two calls in sequence on one value, each with its own       *)
(* default function.  The interpreter runs a call until it returns or      *)
(* raises, which is the fairness of the steps.                             *)
(***************************************************************************)
\* A value that holds an item x without a built-in branch, bare, in a list, in
\* a mapping, or in a list that also holds itself; a list for a default
\* function to return.
LoopInputs ==
    LET holder(held) == CASE held = "bare" -> ListObj(<<>>)
                          [] held = "list" -> ListObj(<<IntV(PyInt(1)), Ref(2)>>)
                          [] held = "dict" -> DictObj(<<StrV(<<97>>)>>, <<Ref(2)>>)
                          [] held = "cycle" -> ListObj(<<Ref(2), Ref(1)>>)
    IN  {[held |-> held, heap |-> <<holder(held), x, ListObj(<<TrueV>>)>>] :
            held \in {"bare", "list", "dict", "cycle"},
            x \in {Instance,
                   RecArray(<<FieldN>>, <<[order |-> "<", code |-> "i2"]>>,
                            <<IntV(PyInt(258))>>)}}

InitLoop ==
    /\ \E in \in LoopInputs :
           /\ heap = in.heap
           /\ root = [c \in Calls |-> IF in.held = "bare" THEN Ref(2) ELSE Ref(1)]
    /\ LET functions == <<NoDefault,
                          [kind |-> "raise", ret |-> NoneV],
                          [kind |-> "same", ret |-> NoneV],
                          [kind |-> "wrap", ret |-> NoneV],
                          [kind |-> "const", ret |-> IntV(PyInt(7))],
                          [kind |-> "const", ret |-> Ref(3)]>>
       IN  \E cc \in BOOLEAN, k \in 1..Len(functions) :
               cfg = [c \in Calls |->
                         [DefaultCfg EXCEPT
                             !.container_count = cc,
                             !.default = functions[((k + c - 2) % Len(functions)) + 1]]]
    /\ numpy = TRUE
    /\ status = [c \in Calls |-> "idle"]
    /\ out = [c \in Calls |-> <<>>]
    /\ seen = [c \in Calls |-> {}]
    /\ stack = [c \in Calls |-> <<>>]

SpecLoop == InitLoop /\ [][NextDefault]_vars /\ WF_vars(NextDefault)

(***************************************************************************)
(* Claims about the scalar encoders (SpecScalar).                          *)
(***************************************************************************)
\* The number of bits of a magnitude.
RECURSIVE BitsOfDigit(_)
BitsOfDigit(d) ==
    IF d = 0 THEN 0 ELSE 1 + BitsOfDigit(d \div 2)

BitLen(mag) ==
    IF mag = <<>> THEN 0 ELSE 8 * (Len(mag) - 1) + BitsOfDigit(mag[Len(mag)])

\* The narrowest marker of n's sign class by the number of bits n needs:
\* b bits unsigned for n >= 0, b bits plus a sign bit (of -n-1) for n < 0.
NarrowestMarker(n) ==
    IF ~n.neg THEN
        LET b == BitLen(n.mag)
        IN  IF b <= 8 THEN TYPE_UINT8 ELSE IF b <= 16 THEN TYPE_UINT16
            ELSE IF b <= 32 THEN TYPE_UINT32 ELSE IF b <= 64 THEN TYPE_UINT64
            ELSE TYPE_HIGH_PREC
    ELSE
        LET b == BitLen(MagPred(n.mag))
        IN  IF b <= 7 THEN TYPE_INT8 ELSE IF b <= 15 THEN TYPE_INT16
            ELSE IF b <= 31 THEN TYPE_INT32 ELSE IF b <= 63 THEN TYPE_INT64
            ELSE TYPE_HIGH_PREC

MarkerWidth(m) ==
    CASE m \in {TYPE_INT8, TYPE_UINT8} -> 1
      [] m \in {TYPE_INT16, TYPE_UINT16} -> 2
      [] m \in {TYPE_INT32, TYPE_UINT32} -> 4
      [] m \in {TYPE_INT64, TYPE_UINT64} -> 8

EncodedInt(c) == status[c] = "done" /\ root[c].t = "int"

\* C1: every integer is written with the narrowest marker of its sign class
\* (U, u, m, M for n >= 0 below 2^8, 2^16, 2^32, 2^64; i, I, l, L for n < 0 down
\* to -2^7, -2^15, -2^31, -2^63) followed by exactly that many bytes, and every
\* integer outside [-2^63, 2^64-1] is written as H, never with an integer marker.
C1_NarrowestMarker ==
    EncodedInt(1) =>
        LET m == NarrowestMarker(IntOf(root[1]))
        IN  /\ out[1][1] = m
            /\ m # TYPE_HIGH_PREC => Len(out[1]) = 1 + MarkerWidth(m)

\* 2^64, one past the widest unsigned marker, has been written as H.
C1_Witness ==
    /\ EncodedInt(1)
    /\ IntOf(root[1]) = Pow2(64)
    /\ out[1][1] = TYPE_HIGH_PREC

IsInt(c, n) == EncodedInt(c) /\ IntOf(root[c]) = PyInt(n)

\* C2 as amended: 127 is written as 'U' 0x7f (a non-negative integer takes the
\* unsigned marker), 128 as 'U' 0x80, 255 as 'U' 0xff, and 256 as 'u' followed
\* by 0x00 0x01 when little-endian and 0x01 0x00 when big-endian.
C2_SmallIntBytes ==
    /\ IsInt(1, 127) => out[1] = <<85, 127>>
    /\ IsInt(1, 128) => out[1] = <<85, 128>>
    /\ IsInt(1, 255) => out[1] = <<85, 255>>
    /\ IsInt(1, 256) =>
           out[1] = IF cfg[1].islittle = 1 THEN <<117, 0, 1>> ELSE <<117, 1, 0>>

\* 127 has been written, as 'U' 0x7f.
C2_Witness == IsInt(1, 127) /\ status[1] = "done" /\ out[1] = <<85, 127>>

\* C2 as stated: 127 is written as 'i' 0x7f (and 128, 255, 256 as above).
C2_AsStated ==
    /\ IsInt(1, 127) => out[1] = <<105, 127>>
    /\ IsInt(1, 128) => out[1] = <<85, 128>>
    /\ IsInt(1, 255) => out[1] = <<85, 255>>
    /\ IsInt(1, 256) =>
           out[1] = IF cfg[1].islittle = 1 THEN <<117, 0, 1>> ELSE <<117, 1, 0>>

EncodedStr(c) == status[c] = "done" /\ root[c].t = "str"

\* C3: a string of UTF-8 length k is written as 'C' and its one byte when k = 1,
\* and otherwise (k = 0 and k >= 256 included) as 'S', the bytes encode_int
\* writes for k, and its k bytes; 'C' is used if and only if k = 1.
C3_StringLayout ==
    EncodedStr(1) =>
        LET bytes == Utf8(root[1].s)
            k == Len(bytes)
        IN  /\ (out[1][1] = TYPE_CHAR) <=> (k = 1)
            /\ k = 1 => out[1] = <<TYPE_CHAR>> \o bytes
            /\ k # 1 => out[1] = <<TYPE_STRING>>
                                   \o encode_int(PyInt(k), cfg[1].islittle) \o bytes
            /\ k < 256 /\ k # 1 => SubSeq(out[1], 1, 3) = <<83, 85, k>>

\* A string of 256 bytes has been written with a two-byte length.
C3_Witness ==
    /\ EncodedStr(1)
    /\ Len(Utf8(root[1].s)) = 256
    /\ out[1][2] = TYPE_UINT16

(***************************************************************************)
(* Claims about the container encoder (Spec).                              *)
(***************************************************************************)
\* The containers reachable from container i in at most n steps (n >= 1).
RECURSIVE ReachIn(_, _)
ReachIn(i, n) ==
    LET direct == {j \in DOMAIN heap : Refers(heap[i], j)}
    IN  IF n = 1 THEN direct
        ELSE direct \cup UNION {ReachIn(j, n - 1) : j \in direct}

Reach(i) == ReachIn(i, Len(heap))

\* Some container reachable from the root (or the root) is reachable from itself.
Cyclic(v) ==
    /\ v.t = "ref"
    /\ \E i \in Reach(v.id) \cup {v.id} : i \in Reach(i)

\* C4 as stated: a call on a value graph with a cycle, under every configuration,
\* ends with CircularReference: it never completes, raises nothing else, and its
\* recursion is never deeper than the number of containers.
C4_CycleAlwaysDetected ==
    Cyclic(root[1]) =>
        /\ status[1] \in {"idle", "running", "CircularReference"}
        /\ Len(stack[1]) <= Len(heap)

ContainerFrame(fr) == fr.kind \in {"array", "object"}

StartMarker(fr) == IF fr.kind = "array" THEN 91 ELSE 123
EndMarker(fr) == IF fr.kind = "array" THEN 93 ELSE 125

\* What an active array or object has at its start in the sink: the start
\* marker, then in counted mode '#' and the number of its children as encode_int
\* writes it, and in open mode no '#'.
HeaderWritten(c, fr) ==
    LET o == out[c]
        count == encode_int(PyInt(Len(heap[fr.id].items)), cfg[c].islittle)
    IN  /\ o[fr.start + 1] = StartMarker(fr)
        /\ IF cfg[c].container_count
           THEN /\ o[fr.start + 2] = 35
                /\ SubSeq(o, fr.start + 3, fr.start + 2 + Len(count)) = count
           ELSE Len(o) >= fr.start + 2 => o[fr.start + 2] # 35

\* encode_array / encode_object returns normally in this step.
Returns(c) ==
    /\ Running(c)
    /\ ContainerFrame(Top(c))
    /\ stack'[c] = Below(c)

\* C5: every array and object the container encoder writes, at any depth, starts
\* with its start marker; in counted mode '#' and the encode_int of its number of
\* children follow and it returns, after that many children, without writing a
\* closing delimiter; in open mode no '#' follows and it returns, after its last
\* child, by writing exactly its closing delimiter.  Empty containers included.
C5_CountedAndOpenContainers ==
    /\ [](\A k \in 1..Len(stack[1]) :
              ContainerFrame(stack[1][k]) => HeaderWritten(1, stack[1][k]))
    /\ [][Returns(1) =>
              /\ Top(1).idx = Len(heap[Top(1).id].items)
              /\ out'[1] = out[1] \o (IF cfg[1].container_count THEN <<>>
                                      ELSE <<EndMarker(Top(1))>>)]_vars

\* A counted, empty dict nested in a counted list has returned.
C5_Witness ==
    /\ status[1] = "done"
    /\ cfg[1].container_count
    /\ heap[1] = ListObj(<<Ref(2)>>)
    /\ heap[2] = DictObj(<<>>, <<>>)
    /\ out[1] = <<91, 35, 85, 1, 123, 35, 85, 0>>

\* The first byte encode_value writes for a value (before any exception).
FirstByte(c, v) == encode_value(c, v, <<>>, {}).out[1]

\* The loop of encode_object takes its next entry, with a string key.
TakesEntry(c) ==
    /\ Running(c)
    /\ Top(c).kind = "object"
    /\ Top(c).idx < Len(Top(c).order)
    /\ heap[Top(c).id].keys[Top(c).order[Top(c).idx + 1]].t = "str"
    /\ stack'[c] # stack[c]

\* C6: every key of a mapping is written as the encode_int of its UTF-8 length
\* ('U' and one byte below 256) and its raw bytes, with no 'S' or 'C' in front,
\* also when it is one byte long; the encoding of the entry's value follows
\* directly (nothing follows when the value is a container already open).
C6_KeyLayout ==
    [][TakesEntry(1) =>
          LET fr == Top(1)
              key == heap[fr.id].keys[fr.order[fr.idx + 1]]
              value == heap[fr.id].items[fr.order[fr.idx + 1]]
              bytes == Utf8(key.s)
              prefix == encode_int(PyInt(Len(bytes)), cfg[1].islittle) \o bytes
              n == Len(out[1])
          IN  /\ Len(out'[1]) >= n + Len(prefix)
              /\ SubSeq(out'[1], 1, n) = out[1]
              /\ SubSeq(out'[1], n + 1, n + Len(prefix)) = prefix
              /\ out'[1][n + 1] \notin {83, 67}
              /\ Len(bytes) < 256 => out'[1][n + 1] = 85 /\ out'[1][n + 2] = Len(bytes)
              /\ IF status'[1] = "CircularReference"
                 THEN Len(out'[1]) = n + Len(prefix)
                 ELSE /\ Len(out'[1]) > n + Len(prefix)
                      /\ out'[1][n + Len(prefix) + 1] = FirstByte(1, value)
              /\ value.t = "int" =>
                     out'[1] = out[1] \o prefix
                               \o encode_int(IntOf(value), cfg[1].islittle)]_vars

\* A mapping with a one-byte key has been written: 'U' 1 'a', then the value.
C6_Witness ==
    /\ status[1] = "done"
    /\ ~cfg[1].container_count
    /\ heap[1] = DictObj(<<StrV(<<97>>)>>, <<IntV(PyInt(1))>>)
    /\ out[1] = <<123, 85, 1, 97, 85, 1, 125>>

(***************************************************************************)
(* Claims about two calls (SpecPair).                                      *)
(***************************************************************************)
KeySet(obj) == {obj.keys[k] : k \in 1..Len(obj.keys)}

\* Two values are the same up to the insertion order of the mappings in them.
RECURSIVE SameEntries(_, _)
SameEntries(v, w) ==
    IF v.t # "ref" \/ w.t # "ref" THEN v = w
    ELSE LET a == heap[v.id]
             b == heap[w.id]
         IN  /\ a.kind = b.kind
             /\ Len(a.items) = Len(b.items)
             /\ IF a.kind = "list"
                THEN \A i \in 1..Len(a.items) : SameEntries(a.items[i], b.items[i])
                ELSE /\ KeySet(a) = KeySet(b)
                     /\ \A i, j \in 1..Len(a.keys) :
                            a.keys[i] = b.keys[j] => SameEntries(a.items[i], b.items[j])

\* C7: with sort_keys on, two mappings with the same entries, also in the
\* mappings nested in them, inserted in different orders are encoded to the
\* same bytes.
C7_SortKeysOrderIndependent ==
    (/\ cfg[1].sort_keys /\ cfg[2] = cfg[1]
     /\ SameEntries(root[1], root[2])
     /\ status[1] = "done" /\ status[2] = "done")
        => out[1] = out[2]

(***************************************************************************)
(* Claims about the SOA engine (SpecSoa).                                  *)
(***************************************************************************)
InSoa(c) == Running(c) /\ Top(c).kind = "soa"

\* The figures of a string column, as the layout picker is specified: N values,
\* U distinct ones, maximum and total UTF-8 length, and the bytes of a dictionary
\* (each distinct value with 2 bytes of length prefix).
ByteLens(field) == [i \in 1..Len(field.values) |-> Len(Utf8(field.values[i].s))]

ColN(field) == Len(field.values)

ColU(field) == Cardinality({field.values[i].s : i \in 1..Len(field.values)})

ColLmax(field) ==
    LET lens == ByteLens(field)
    IN  CHOOSE l \in {lens[i] : i \in 1..Len(lens)} : \A i \in 1..Len(lens) : lens[i] <= l

ColT(field) == SumSeq(ByteLens(field))

Width124(x) == IF x <= 255 THEN 1 ELSE IF x <= 65535 THEN 2 ELSE 4

DistinctBytes(field) ==
    LET lens == ByteLens(field)
        first == Ascending({i \in 1..Len(field.values) :
                               \A j \in 1..(i - 1) : field.values[j].s # field.values[i].s})
    IN  SumSeq([k \in 1..Len(first) |-> lens[first[k]] + 2])

\* fixed_cost, dict_cost, offset_cost and the two admission predicates
\* (U <= 0.3 * N for dict, L_max > 32 for offset).
Costs(field) ==
    LET n == ColN(field)
        u == ColU(field)
        lmax == ColLmax(field)
        t == ColT(field)
    IN  [fixed |-> lmax * n,
         dict |-> Width124(u) * n + DistinctBytes(field),
         offset |-> Width124(u) * n + (n + 1) * Width124(t) + t,
         dict_admitted |-> 10 * u <= 3 * n,
         offset_admitted |-> lmax > 32,
         lmax |-> lmax]

StringFields(c) ==
    {k \in 1..Len(Top(c).schema) : Top(c).schema[k].type = "string"}

\* encode_soa has built its schema and written the header, nothing else yet.
Analysed(c) == InSoa(c) /\ Top(c).i = 0 /\ Top(c).f = 0 /\ Top(c).t = 0

CostOf(fld, c) ==
    CASE fld.encoding = "fixed" -> c.fixed
      [] fld.encoding = "dict" -> c.dict
      [] fld.encoding = "offset" -> c.offset

\* C9: the strategy picked for a string column costs no more than any strategy
\* its predicates admit: fixed always, dict iff U <= 0.3 N, offset iff L_max > 32.
C9_CheapestAdmitted ==
    Analysed(1) =>
        \A k \in StringFields(1) :
            LET fld == Top(1).schema[k]
                c == Costs(fld)
                chosen == CostOf(fld, c)
            IN  /\ chosen <= c.fixed
                /\ c.dict_admitted => chosen <= c.dict
                /\ c.offset_admitted => chosen <= c.offset

\* All three strategies are admitted and the cheapest, dict, is picked.
C9_Witness ==
    /\ Analysed(1)
    /\ \E k \in StringFields(1) :
           LET fld == Top(1).schema[k]
               c == Costs(fld)
           IN  /\ c.dict_admitted /\ c.offset_admitted
               /\ fld.encoding = "dict"
               /\ c.dict < c.offset
               /\ c.dict < c.fixed

\* The value of w bytes read in the call's byte order.
RECURSIVE ReadLE(_)
ReadLE(bytes) ==
    IF bytes = <<>> THEN 0 ELSE Head(bytes) + 256 * ReadLE(Tail(bytes))

ReadUnsigned(bytes, le) == ReadLE(IF le = 1 THEN bytes ELSE Reverse(bytes))

\* The bytes one element of a field takes in the payload.
ElementWidth(fld) ==
    CASE fld.type = "numeric" -> MarkerWidth(fld.marker)
      [] fld.type = "bool" -> 1
      [] fld.type = "null" -> 0
      [] fld.type = "string" /\ fld.encoding = "fixed" -> fld.length
      [] fld.type = "string" /\ fld.encoding \in {"dict", "offset"} ->
            IF fld.index_marker = 85 THEN 1 ELSE IF fld.index_marker = 117 THEN 2 ELSE 4

\* The size of the trailer of an offset-encoded field.
TrailerSize(fld) == (ColN(fld) + 1) * ElementWidth(fld) + ColT(fld)

\* The schema positions of the offset-encoded fields, in schema order.
OffsetPositions(schema) ==
    Ascending({k \in 1..Len(schema) : schema[k].encoding = "offset"})

\* encode_soa writes the trailer of its next offset-encoded field in this step.
WritesTrailer(c) ==
    /\ InSoa(c)
    /\ status'[c] = "running"
    /\ stack'[c][Len(stack'[c])].t = Top(c).t + 1

\* encode_soa writes a payload element in this step.
WritesElement(c) ==
    /\ InSoa(c)
    /\ status'[c] = "running"
    /\ <<stack'[c][Len(stack'[c])].i, stack'[c][Len(stack'[c])].f>> # <<Top(c).i, Top(c).f>>

\* C10: the trailer of an offset-encoded column of N elements is a table of
\* exactly N+1 offsets, the first 0, each next one larger by the UTF-8 length of
\* the element (so non-decreasing), the last one the length of the string buffer
\* that follows the table, which is the elements' bytes.  The trailers come in
\* schema order, after the whole payload, and no element is written after one.
C10_TrailerIntegrity ==
    /\ [][WritesTrailer(1) =>
            LET fr == Top(1)
                pos == OffsetPositions(fr.schema)
                fld == fr.schema[pos[fr.t + 1]]
                w == ElementWidth(fld)
                n == fr.count
                le == cfg[1].islittle
                written == SubSeq(out'[1], Len(out[1]) + 1, Len(out'[1]))
                entry(k) == ReadUnsigned(SubSeq(written, (k - 1) * w + 1, k * w), le)
                buffer == SubSeq(written, (n + 1) * w + 1, Len(written))
                before == Len(SoaHeaderBytes(fr.schema, n, fr.row_major, le))
                          + SumSeq([k \in 1..Len(fr.schema) |->
                                       n * ElementWidth(fr.schema[k])])
                          + SumSeq([k \in 1..fr.t |-> TrailerSize(fr.schema[pos[k]])])
            IN  /\ SubSeq(out'[1], 1, Len(out[1])) = out[1]
                /\ Len(out[1]) = fr.start + before
                /\ Len(written) = (n + 1) * w + entry(n + 1)
                /\ entry(1) = 0
                /\ \A k \in 1..n :
                       /\ entry(k) <= entry(k + 1)
                       /\ entry(k + 1) - entry(k) = Len(Utf8(fld.values[k].s))
                       /\ SubSeq(buffer, entry(k) + 1, entry(k + 1)) = Utf8(fld.values[k].s)
                /\ entry(n + 1) = Len(buffer)]_vars
    /\ [][WritesElement(1) => Top(1).t = 0]_vars

\* The trailers of two offset-encoded columns have been written.
C10_Witness ==
    /\ InSoa(1)
    /\ Len(OffsetPositions(Top(1).schema)) = 2
    /\ Top(1).t = 2

(***************************************************************************)
(* Claims about index widths (SpecWide).                                   *)
(***************************************************************************)
\* C11: the index marker of a string column is wide enough for what it
\* addresses: every dictionary index 0..U-1 of a dict column, and every byte
\* offset 0..T of the offset table of an offset column, is representable as an
\* unsigned integer of the marker's width.
C11_IndexMarkerWideEnough ==
    Analysed(1) =>
        \A k \in StringFields(1) :
            LET fld == Top(1).schema[k]
                w == IndexWidth(fld.index_marker)
            IN  /\ fld.encoding = "dict" =>
                       PackUnsignedOk(PyInt(ColU(fld) - 1), w)
                /\ fld.encoding = "offset" =>
                       PackUnsignedOk(PyInt(ColT(fld)), w)

\* A dictionary of more than 256 entries, indexed by two-byte integers.
C11_Witness ==
    /\ Analysed(1)
    /\ \E k \in StringFields(1) :
           /\ Top(1).schema[k].encoding = "dict"
           /\ Len(Top(1).schema[k].dict) > 256
           /\ Top(1).schema[k].index_marker = TYPE_UINT16

(***************************************************************************)
(* Claims about typed columns (SpecCols).                                  *)
(***************************************************************************)
\* The root of call c is a list of dicts with one key set.
IsTable(c) == can_encode_as_soa(root[c]) /\ IsList(root[c])

\* A column whose first value that is not None is a list or a dict.
UnsupportedColumn(values) == Sample(values).t = "ref"

\* C12 as stated: a table with a column whose element type is outside
\* {numeric, boolean, null, string} is never encoded successfully, and every
\* SOA emission has exactly one schema field per input field, in declared order.
C12_NoColumnOmitted ==
    \A c \in Calls :
        IsTable(c) =>
            LET cols == Columns(root[c])
            IN  /\ (\E k \in 1..Len(cols) : UnsupportedColumn(cols[k].values))
                       => status[c] # "done"
                /\ InSoa(c) =>
                       /\ Len(Top(c).schema) = Len(cols)
                       /\ \A k \in 1..Len(cols) : Top(c).schema[k].name = cols[k].name


\* C13 as stated, for the payload of numeric columns: every element a call
\* writes for a numeric column, of a list of mappings or of a record array, is
\* the element's value in the width of the column's marker and in the byte
\* order the call was given.
C13_PayloadInCallByteOrder ==
    [][\A c \in Calls :
          WritesElement(c) /\ Top(c).schema[Top(c).f + 1].type = "numeric" =>
              LET fld == Top(c).schema[Top(c).f + 1]
                  n == NumOf(fld.values[Top(c).i + 1])
                  w == MarkerWidth(fld.marker)
                  written == SubSeq(out'[c], Len(out[c]) + 1, Len(out'[c]))
              IN  written = IF fld.marker \in {TYPE_INT8, TYPE_INT16, TYPE_INT32, TYPE_INT64}
                            THEN PackSigned(n, w, cfg[c].islittle)
                            ELSE PackUnsigned(n, w, cfg[c].islittle)]_vars


\* The place of element (field f, row i), both zero-based, within the payload:
\* after the whole fields before f and i elements of f when column-major, after
\* i whole rows and the fields before f when row-major.
PayloadOffset(schema, count, row_major, f, i) ==
    LET widths == [k \in 1..Len(schema) |-> ElementWidth(schema[k])]
    IN  IF row_major
        THEN i * SumSeq(widths) + SumRange(widths, 1, f)
        ELSE count * SumRange(widths, 1, f) + i * widths[f + 1]

\* The bytes of element (f, i) in what call c has written.
ElementBytes(c, schema, count, f, i) ==
    LET from == Len(SoaHeaderBytes(schema, count, c = 2, cfg[c].islittle))
                + PayloadOffset(schema, count, c = 2, f, i)
    IN  SubSeq(out[c], from + 1, from + ElementWidth(schema[f + 1]))

\* C14: an SOA emission opens with '{' (column-major) or '[' (row-major), '$',
\* the schema object, '#' and the count; then comes the payload, each element at
\* the place its (field, row) has in the mode's order: by field then row when
\* column-major, by row then field when row-major; the trailers come after the
\* whole payload.  Both modes give the same schema and count and the same bytes
\* for every element.
C14_PayloadOrder ==
    /\ [][\A c \in Calls :
              WritesElement(c) =>
                  LET fr == Top(c)
                      header == SoaHeaderBytes(fr.schema, fr.count, fr.row_major,
                                               cfg[c].islittle)
                      count == encode_int(PyInt(fr.count), cfg[c].islittle)
                      at == fr.start + Len(header)
                            + PayloadOffset(fr.schema, fr.count, fr.row_major, fr.f, fr.i)
                  IN  /\ fr.row_major <=> cfg[c].soa_format = "row"
                      /\ SubSeq(out[c], fr.start + 1, fr.start + 3)
                             = <<IF fr.row_major THEN 91 ELSE 123, 36, 123>>
                      /\ SubSeq(out[c], fr.start + Len(header) - Len(count) - 1,
                                fr.start + Len(header)) = <<125, 35>> \o count
                      /\ Len(out[c]) = at
                      /\ Len(out'[c]) = at + ElementWidth(fr.schema[fr.f + 1])
                      /\ SubSeq(out'[c], 1, at) = out[c]
                      /\ fr.t = 0]_vars
    /\ [](status[1] = "done" /\ status[2] = "done" /\ IsTable(1) =>
            LET schema == BuildSchema(root[1])
                count == Len(heap[root[1].id].items)
            IN  /\ out[1][1] = 123 /\ out[2][1] = 91
                /\ Len(out[1]) = Len(out[2])
                /\ LET h == Len(SoaHeaderBytes(schema, count, FALSE, cfg[1].islittle))
                   IN  SubSeq(out[1], 2, h) = SubSeq(out[2], 2, h)
                /\ \A f \in 0..(Len(schema) - 1) : \A i \in 0..(count - 1) :
                       ElementBytes(1, schema, count, f, i)
                           = ElementBytes(2, schema, count, f, i))

\* A table of two rows and two fields whose elements differ has been written
\* in both modes.
C14_Witness ==
    /\ status[1] = "done" /\ status[2] = "done" /\ IsTable(1)
    /\ Len(heap[root[1].id].items) = 2
    /\ LET schema == BuildSchema(root[1])
       IN  /\ Len(schema) = 2
           /\ ElementBytes(1, schema, 2, 0, 0) # ElementBytes(1, schema, 2, 0, 1)
           /\ ElementBytes(1, schema, 2, 0, 0) # ElementBytes(1, schema, 2, 1, 0)
           /\ out[1] # out[2]



\* n is in the range of an integer marker.
InMarkerRange(n, m) ==
    LET bits == 8 * MarkerWidth(m)
    IN  IF m \in {TYPE_INT8, TYPE_INT16, TYPE_INT32, TYPE_INT64}
        THEN ~PyLess(n, PyNeg(Pow2(bits - 1))) /\ PyLess(n, Pow2(bits - 1))
        ELSE ~n.neg /\ PyLess(n, Pow2(bits))

\* C20 as stated: the marker that column analysis picks for an integer column
\* of a list of mappings has a range that holds every value of the column (None
\* as 0), and the emission of the payload never fails.
C20_IntColumnMarkerHoldsValues ==
    \A c \in Calls :
        (IsTable(c) /\ stack[c] # <<>> /\ Top(c).kind = "soa") =>
            /\ status[c] # "struct.error"
            /\ \A k \in 1..Len(Top(c).schema) :
                   Top(c).schema[k].type = "numeric" =>
                       \A i \in 1..Len(Top(c).schema[k].values) :
                           InMarkerRange(NumOf(Top(c).schema[k].values[i]),
                                         Top(c).schema[k].marker)

(***************************************************************************)
(* Claims about mapping keys (SpecKeys).                                   *)
(***************************************************************************)
\* The value of call c is or contains a mapping with a key that is no string.
HasBadKey(c) ==
    /\ root[c].t = "ref"
    /\ \E i \in Reach(root[c].id) \cup {root[c].id} :
           /\ heap[i].kind = "dict"
           /\ \E k \in 1..Len(heap[i].keys) : heap[i].keys[k].t # "str"

\* C15 as stated: a call on a value with a mapping, at any depth, that has a
\* key which is no string never completes and raises nothing but the encoder's
\* own exception, with sort_keys off or on.
C15_BadKeyRaisesEncoderException ==
    HasBadKey(1) => status[1] \in {"idle", "running", "EncoderException"}


(***************************************************************************)
(* Claims about the default function (SpecDefault).                        *)
(***************************************************************************)
Terminated(c) == status[c] \notin {"idle", "running"}

\* The frames of call c in which the default function has been handed an item.
DefaultFrames(c) == {k \in 1..Len(stack[c]) : stack[c][k].kind = "default"}

RECURSIVE SoloValue(_, _, _, _), SoloRest(_, _, _, _, _, _)
SoloValue(c, v, o, open) ==
    IF v.t = "int" THEN [out |-> o \o encode_int(IntOf(v), cfg[c].islittle),
                         status |-> "running"]
    ELSE IF v.id \in open THEN [out |-> o, status |-> "CircularReference"]
    ELSE LET obj == heap[v.id]
             n == Len(obj.items)
             is_list == obj.kind = "list"
             order == IF ~is_list /\ cfg[c].sort_keys THEN SortedOrder(obj.keys, n)
                      ELSE [k \in 1..n |-> k]
             head == <<IF is_list THEN 91 ELSE 123>>
                     \o (IF cfg[c].container_count
                         THEN <<35>> \o encode_int(PyInt(n), cfg[c].islittle)
                         ELSE <<>>)
             r == SoloRest(c, v.id, order, 1, o \o head, open \cup {v.id})
         IN  IF r.status # "running" THEN r
             ELSE [r EXCEPT !.out = r.out \o (IF cfg[c].container_count THEN <<>>
                                              ELSE <<IF is_list THEN 93 ELSE 125>>)]

SoloRest(c, id, order, k, o, open) ==
    IF k > Len(order) THEN [out |-> o, status |-> "running"]
    ELSE LET obj == heap[id]
             key == IF obj.kind = "list" THEN <<>>
                    ELSE EncodeKey(obj.keys[order[k]], cfg[c].islittle)
             r == SoloValue(c, obj.items[order[k]], o \o key, open)
         IN  IF r.status # "running" THEN r
             ELSE SoloRest(c, id, order, k + 1, r.out, open)

Solo(c) ==
    LET r == SoloValue(c, root[c], <<>>, {})
    IN  [r EXCEPT !.status = IF r.status = "running" THEN "done" ELSE r.status]

\* C17: however the steps of two calls with separate sinks interleave, each call
\* ends as it ends when it runs alone, with the same bytes or the same error; a
\* step of one call changes nothing of the other call and nothing they share;
\* a container open in one call raises no CircularReference in the other.
C17_NoInterference ==
    /\ [](\A c \in Calls :
              Terminated(c) => (status[c] = Solo(c).status /\ out[c] = Solo(c).out))
    /\ [][/\ \E c \in Calls : \A d \in Calls \ {c} :
                 /\ out'[d] = out[d] /\ seen'[d] = seen[d]
                 /\ stack'[d] = stack[d] /\ status'[d] = status[d]
          /\ UNCHANGED <<heap, numpy, cfg, root>>]_vars

\* Call 2 has encoded a container in full while call 1 had it open.
C17_Witness ==
    /\ root[2] = root[1]
    /\ status[1] = "running" /\ root[1].id \in seen[1] /\ out[1] = <<91>>
    /\ status[2] = "done" /\ Len(out[2]) > 2


(***************************************************************************)
(* Claims about the open-container set (Spec).                             *)
(***************************************************************************)
\* The frames of the arrays and objects on the recursion path of call c.
PathFrames(c) == {k \in 1..Len(stack[c]) : ContainerFrame(stack[c][k])}

\* encode_array / encode_object is entered in this step and reaches its loop.
Enters(c) ==
    /\ status'[c] = "running"
    /\ Len(stack'[c]) = Len(stack[c]) + 1
    /\ ContainerFrame(stack'[c][Len(stack'[c])])

\* C18: while a call runs, the open-container set holds exactly the identities
\* of the arrays and objects on the recursion path, each once; entering one adds
\* exactly its identity, its normal return removes exactly that identity; the
\* set is empty when the call starts and when it has returned successfully.
C18_OpenSetIsRecursionPath ==
    /\ [](status[1] \in {"idle", "running", "done"} =>
              /\ seen[1] = {stack[1][k].id : k \in PathFrames(1)}
              /\ Cardinality(seen[1]) = Cardinality(PathFrames(1)))
    /\ [](status[1] \in {"idle", "done"} => seen[1] = {})
    /\ [][Enters(1) =>
              LET id == stack'[1][Len(stack'[1])].id
              IN  id \notin seen[1] /\ seen'[1] = seen[1] \cup {id}]_vars
    /\ [][Returns(1) =>
              Top(1).id \in seen[1] /\ seen'[1] = seen[1] \ {Top(1).id}]_vars

\* Container 2, nested in container 1, has been entered and has returned.
C18_Witness ==
    /\ status[1] = "running"
    /\ Len(stack[1]) = 1
    /\ Top(1).kind = "array"
    /\ Top(1).idx = 1
    /\ heap[1].items[1] = Ref(2)
    /\ out[1][Len(out[1])] \in {93, 125}
    /\ seen[1] = {1}


(***************************************************************************)
(* Claims about shared containers (SpecShared).                            *)
(***************************************************************************)
\* C19: a container that occurs more than once in a value without being its own
\* ancestor raises no CircularReference: the call completes, and writes what
\* the call on the same structure built from distinct equal containers writes.
C19_SharedNotCircular ==
    /\ status[1] \in {"idle", "running", "done"}
    /\ (status[1] = "done" /\ status[2] = "done") => out[1] = out[2]

\* A list that holds a number and a mapping, held twice by a list: both calls
\* have returned.
C19_Witness ==
    /\ heap[1] = ListObj(<<Ref(2), Ref(2)>>)
    /\ heap[2] = ListObj(<<IntV(PyInt(1)), Ref(3)>>)
    /\ heap[3].kind = "dict"
    /\ cfg[1].soa_format = "None"
    /\ status[1] = "done" /\ status[2] = "done"
    /\ out[1] = out[2]


(***************************************************************************)
(* Claims about the row indexes of offset columns (SpecWide).              *)
(***************************************************************************)
\* C21 as stated: every row index 0..N-1 that the payload writes for an
\* offset-encoded string column is representable in the width of the column's
\* index marker, so that the emission of the payload does not fail, whatever
\* the number of rows.
C21_RowIndexFitsIndexMarker ==
    InSoa(1) =>
        /\ status[1] # "struct.error"
        /\ \A k \in StringFields(1) :
               LET fld == Top(1).schema[k]
               IN  fld.encoding = "offset" =>
                       \A i \in 0..(Top(1).count - 1) :
                           PackUnsignedOk(PyInt(i), IndexWidth(fld.index_marker))


(***************************************************************************)
(* Claims about termination (SpecLoop).                                    *)
(***************************************************************************)
\* C22: every call of the encoder ends, by returning or by raising an error,
\* whatever the value and whatever the default function returns (the item it
\* was given and a new list that holds the item included), and a call that has
\* ended stays as it ended.
C22_EveryCallEnds ==
    /\ <>(\A c \in Calls : Terminated(c))
    /\ [][\A c \in Calls : Terminated(c) => status'[c] = status[c]]_vars

\* Both calls have ended in the recursion limit: the first with a function that
\* returns its argument, the second with one that wraps it in a new list.
C22_Witness ==
    /\ cfg[1].default.kind = "same"
    /\ status[1] = "RecursionError"
    /\ cfg[2].default.kind = "wrap"
    /\ status[2] = "RecursionError"
    /\ Len(heap) > 3
    /\ out[2] # <<>>

=============================================================================
